---------------------------- MODULE Spec2Model ----------------------------
(***************************************************************************)
(* A model of the two-pass assembler (assembler.c, pre_assembler.c,        *)
(* code.c, instruction.c, directive.c, second_pass.c, data.c, file.c).     *)
(*                                                                         *)
(* Text is modelled at the level the code inspects it: a line, a token or  *)
(* a name is a tuple of one-character strings, so that strtok, the         *)
(* whitespace handling, the addressing classifier and strcmp are computed  *)
(* as the code computes them.                                              *)
(***************************************************************************)
EXTENDS Integers, Sequences, FiniteSets, TLC

(***************************************************************************)
(* Program constants.                                                      *)
(***************************************************************************)
MAX_SIZE_MEMORY == 156
MEMORY_CAP == 156
MEMORY_START == 100
MAX_SIZE_LABEL == 30
NUM_1 == 1
NUM_2 == 2
NUM_4 == 4
NUM_5 == 5
NUM_8 == 8
INSTRUCTION == 0
DIRECTIVE == 1
ENTRY == 3
EXTERN == 4
UNRECOGNIZED == -1
IMMEDIATE == 0
DIRECT == 1
MATRIX == 10
REGISTER == 11
ABSOLUTE == 0
EXTERNAL == 1
RELOCATABLE == 2
NO_OPERAND == -1
NO_KNEWN == -4
MAX_VAL == 511
MIN_VAL == -512
UPDATE == 100
NOT_UPDATE == 110
EXIT == -100

(***************************************************************************)
(* Bounds of the model.                                                    *)
(***************************************************************************)
MaxLines == 2
MaxFiles == 2
EncMargin == 2

(***************************************************************************)
(* Characters and C strings.                                               *)
(***************************************************************************)
NUL == "NUL"
NULL == <<"NULL">>
\* a string literal as the tuple of its characters
Chars(s) == [k \in 1..Len(s) |-> SubSeq(s, k, k)]
CharSet(s) == {SubSeq(s, k, k) : k \in 1..Len(s)}

Digits == Chars("0123456789")
DigitSet == CharSet("0123456789")
LowerSet == CharSet("abcdefghijklmnopqrstuvwxyz")
UpperSet == CharSet("ABCDEFGHIJKLMNOPQRSTUVWXYZ")
\* the printable ASCII characters ' ' (32) .. '~' (126), in order
Printable ==
    Chars(" !\"#$%&'()*+,-./0123456789:;<=>?@ABCDEFGHIJKLMNOPQRSTUVWXYZ[\\]^_")
    \o <<"GRAVE">> \o Chars("abcdefghijklmnopqrstuvwxyz{|}~")
PrintableSet == {Printable[k] : k \in 1..Len(Printable)}
Ascii(c) == 31 + (CHOOSE k \in 1..Len(Printable) : Printable[k] = c)

isspace(c) == c \in {" ", "\t", "\n"}
isdigit(c) == c \in DigitSet
isalpha(c) == c \in LowerSet \cup UpperSet
isalnum(c) == isalpha(c) \/ isdigit(c)
DigitVal(c) == CHOOSE k \in 0..9 : Digits[k + 1] = c

\* str[i] of a C string, 0-based, reading the terminator past the end
At(str, i) == IF i >= 0 /\ i < Len(str) THEN str[i + 1] ELSE NUL

Drop(str, n) == IF n >= Len(str) THEN <<>> ELSE SubSeq(str, n + 1, Len(str))
Take(str, n) == IF n <= 0 THEN <<>> ELSE SubSeq(str, 1, IF n < Len(str) THEN n ELSE Len(str))

\* the sequence with element i (1-based) replaced
Put(str, i, c) == [k \in 1..Len(str) |-> IF k = i THEN c ELSE str[k]]

\* number of leading characters of str that are in the set delims (strspn)
RECURSIVE strspn(_, _)
strspn(str, delims) ==
    IF str # <<>> /\ Head(str) \in delims THEN 1 + strspn(Tail(str), delims) ELSE 0

\* number of leading characters of str that are not in delims (strcspn)
RECURSIVE strcspn(_, _)
strcspn(str, delims) ==
    IF str # <<>> /\ Head(str) \notin delims THEN 1 + strcspn(Tail(str), delims) ELSE 0

\* the tokens strtok yields on str for a fixed delimiter set
RECURSIVE strtok_all(_, _)
strtok_all(str, delims) ==
    IF str = <<>> THEN <<>>
    ELSE IF Head(str) \in delims THEN strtok_all(Tail(str), delims)
    ELSE <<Take(str, strcspn(str, delims))>>
         \o strtok_all(Drop(str, strcspn(str, delims)), delims)

Nth(tokens, k) == IF k <= Len(tokens) THEN tokens[k] ELSE NULL

\* the k-th token (1-based) or NULL
strtok(str, delims, k) == Nth(strtok_all(str, delims), k)

\* atoi/strtol on a token: optional sign, then leading digits; end is the
\* number of characters consumed (the position of endptr)
RECURSIVE digits_value(_, _)
digits_value(str, acc) ==
    IF str # <<>> /\ isdigit(Head(str))
    THEN digits_value(Tail(str), 10 * acc + DigitVal(Head(str)))
    ELSE acc

\* the digits after ws white-space characters and sign sign characters
strtol_digits(ws, sign, negative, body) ==
    [val |-> IF negative THEN 0 - digits_value(body, 0) ELSE digits_value(body, 0),
     end |-> IF strspn(body, DigitSet) = 0 THEN 0 ELSE ws + sign + strspn(body, DigitSet)]

strtol_sign(ws, s) ==
    IF s # <<>> /\ Head(s) \in {"-", "+"}
    THEN strtol_digits(ws, 1, Head(s) = "-", Tail(s))
    ELSE strtol_digits(ws, 0, FALSE, s)

strtol(str) == strtol_sign(strspn(str, {" ", "\t", "\n"}), Drop(str, strspn(str, {" ", "\t", "\n"})))

atoi(str) == strtol(str).val

(***************************************************************************)
(* directive.c: whitespace utilities                                       *)
(***************************************************************************)
only_spaces_and_tabs(str) == \A k \in 1..Len(str) : isspace(str[k])

begin_of_string(str) ==
    IF only_spaces_and_tabs(str) THEN 0 ELSE strspn(str, {" ", "\t"})

RECURSIVE end_of_string(_)
end_of_string(str) ==
    IF only_spaces_and_tabs(str) THEN 0
    ELSE IF str[Len(str)] \notin {" ", "\t"} THEN Len(str)
    ELSE end_of_string(Take(str, Len(str) - 1))

(***************************************************************************)
(* second_pass.c: the base-4 encoder                                       *)
(***************************************************************************)
digit_to_char_special_base4(digit) ==
    CASE digit = 0 -> "a"
      [] digit = 1 -> "b"
      [] digit = 2 -> "c"
      [] digit = 3 -> "d"
      [] OTHER -> NUL

\* the switch over 'a'..'d' that both loops use (any other character is 0)
char_to_digit(c) ==
    CASE c = "b" -> 1
      [] c = "c" -> 2
      [] c = "d" -> 3
      [] OTHER -> 0

\* for (i = len - 1; i >= 0 && carry > 0; i--)
RECURSIVE add_one_loop(_, _, _)
add_one_loop(base4_str, i, carry) ==
    IF i >= 1 /\ carry > 0
    THEN LET digit == char_to_digit(base4_str[i]) + carry
         IN  add_one_loop(Put(base4_str, i, digit_to_char_special_base4(digit % 4)),
                          i - 1, digit \div 4)
    ELSE base4_str

add_one_to_special_base4(base4_str, len) == add_one_loop(base4_str, len, 1)

\* while (current_num > 0 && i >= 0) base4_str[i--] = digit(current_num % 4)
RECURSIVE fill_digits(_, _, _)
fill_digits(base4_str, current_num, i) ==
    IF current_num > 0 /\ i >= 1
    THEN fill_digits(Put(base4_str, i, digit_to_char_special_base4(current_num % 4)),
                     current_num \div 4, i - 1)
    ELSE base4_str

invert_digits(base4_str) ==
    [k \in 1..Len(base4_str) |->
        digit_to_char_special_base4(3 - char_to_digit(base4_str[k]))]

abs(num) == IF num < 0 THEN 0 - num ELSE num

int_to_special_base4_neg_mut(num, num_digits) ==
    invert_digits(fill_digits([k \in 1..num_digits |-> "a"], abs(num), num_digits))

int_to_special_base4_neg(num, num_digits) ==
    add_one_to_special_base4(
        invert_digits(fill_digits([k \in 1..num_digits |-> "a"], abs(num), num_digits)),
        num_digits)

int_to_special_base4(num, num_digits) ==
    IF num < 0
    THEN int_to_special_base4_neg(num, num_digits)
    ELSE fill_digits([k \in 1..num_digits |-> "a"], num, num_digits)


(***************************************************************************)
(* instruction.c: operands, the Command word and the operand words         *)
(***************************************************************************)
WS == {" ", "\t", "\n"}
OctalSet == CharSet("01234567")

\* the token strtok finds at s, and the text the next strtok(NULL, ...)
\* call continues from
tok_at(s, delims) ==
    [tok |-> IF s = <<>> THEN NULL ELSE Take(s, strcspn(s, delims)),
     rest |-> Drop(s, strcspn(s, delims) + 1)]

tok_first(rem, delims) == tok_at(Drop(rem, strspn(rem, delims)), delims)

\* the tokens of successive strtok calls, one delimiter set per call
RECURSIVE strtok_calls(_, _)
strtok_calls(rem, sets) ==
    IF sets = <<>> THEN <<>>
    ELSE <<tok_first(rem, Head(sets)).tok>>
         \o strtok_calls(tok_first(rem, Head(sets)).rest, Tail(sets))

\* an instruction word: the record type and the four unsigned slots of the
\* union (Command: opcode, operand1, operand2, ARE; Address: address, ARE;
\* Register: operand1, operand2, ARE); calloc leaves every slot zero
Word(type, u0, u1, u2, u3) == [type |-> type, u0 |-> u0, u1 |-> u1, u2 |-> u2, u3 |-> u3]
ZeroWord == Word("RECORD_TYPE_COMMAND", 0, 0, 0, 0)
CommandWord(opcode, operand1, operand2) ==
    Word("RECORD_TYPE_COMMAND", opcode, operand1, operand2, 0)
RegisterWord(reg1, reg2, are) == Word("RECORD_TYPE_REGISTER", reg1, reg2, are, 0)
AddressWord(add, are) == Word("RECORD_TYPE_ADDRESS", add, are, 0, 0)

\* enum command
Opcodes == <<"mov", "cmp", "add", "sub", "lea", "clr", "not", "inc", "dec",
             "jmp", "bne", "jsr", "red", "prn", "rts", "stop">>
opcode_of(str) == (CHOOSE k \in 1..16 : Chars(Opcodes[k]) = str) - 1
OpcodeNames == {Chars(Opcodes[k]) : k \in 1..16}

is_matrix(str) == IF \E k \in 1..Len(str) : str[k] \in {"[", "]"} THEN 0 ELSE 1

\* which_type_operand after its white-space loop stopped at i
which_type_operand_at(str, i) ==
    IF At(str, i) = "#" THEN IMMEDIATE
    ELSE IF At(str, i) = "r" /\ At(str, i + 1) \in OctalSet THEN REGISTER
    ELSE IF is_matrix(str) = 0 THEN MATRIX
    ELSE DIRECT

which_type_operand(str) ==
    IF str = NULL \/ only_spaces_and_tabs(str) THEN NO_OPERAND
    ELSE which_type_operand_at(str, strspn(str, WS))

Result(ret, words, errs, ub) == [ret |-> ret, words |-> words, errs |-> errs, ub |-> ub]

OPERAND_2_CHECK(operand1, operand2) == operand1 = NO_OPERAND \/ operand2 = NO_OPERAND
OPERAND_1_CHECK(operand1, operand2) ==
    \/ operand1 = NO_OPERAND /\ operand2 = NO_OPERAND
    \/ operand1 # NO_OPERAND /\ operand2 # NO_OPERAND
OPERAND_0_CHECK(operand1, operand2) == operand1 # NO_OPERAND \/ operand2 # NO_OPERAND
IMMEDIATE_IS_ERROR(operand_p) == operand_p = IMMEDIATE

lea == <<"l", "e", "a">>
cmp == <<"c", "m", "p">>
prn == <<"p", "r", "n">>

\* the lea branch of word(): the operand count is checked, the if on the
\* addressing modes ends in an empty statement, and the block after it adds
\* the Command word and returns 1
word_lea(operand1, operand2) ==
    IF OPERAND_2_CHECK(operand1, operand2)
    THEN Result(0, <<>>, <<": error! there must be 2 operands">>, FALSE)
    ELSE Result(1, <<CommandWord(opcode_of(lea), operand1, operand2)>>, <<>>, FALSE)

word_two_mut(str, operand1, operand2) ==
    IF OPERAND_2_CHECK(operand1, operand2)
    THEN Result(0, <<>>, <<": error! there must be 2 operands">>, FALSE)
    ELSE Result(1, <<CommandWord(opcode_of(str), operand1, operand2)>>, <<>>, FALSE)

\* mov, add, sub (Immediate destination refused) and cmp
word_two(str, operand1, operand2) ==
    IF OPERAND_2_CHECK(operand1, operand2)
    THEN Result(0, <<>>, <<": error! there must be 2 operands">>, FALSE)
    ELSE IF str # cmp /\ IMMEDIATE_IS_ERROR(operand2)
    THEN Result(0, <<>>, <<": error! illegal address in operand">>, FALSE)
    ELSE Result(1, <<CommandWord(opcode_of(str), operand1, operand2)>>, <<>>, FALSE)

\* not, clr, inc, dec, jmp, bne, red, jsr (Immediate refused) and prn
word_one(str, operand1, operand2) ==
    IF OPERAND_1_CHECK(operand1, operand2)
    THEN Result(0, <<>>, <<": error! there must be 1 operand">>, FALSE)
    ELSE IF str # prn /\ IMMEDIATE_IS_ERROR(operand1)
    THEN Result(0, <<>>, <<": error! illegal address in operand">>, FALSE)
    ELSE Result(1, <<CommandWord(opcode_of(str), 0, operand1)>>, <<>>, FALSE)

\* rts, stop
word_zero(str, operand1, operand2) ==
    IF OPERAND_0_CHECK(operand1, operand2)
    THEN Result(0, <<>>, <<": error! there must be 0 operands">>, FALSE)
    ELSE Result(1, <<CommandWord(opcode_of(str), 0, 0)>>, <<>>, FALSE)

TwoOperandNames == {Chars("mov"), Chars("cmp"), Chars("add"), Chars("sub")}
NoOperandNames == {Chars("rts"), Chars("stop")}

word(str, operand1, operand2) ==
    IF str \in TwoOperandNames THEN word_two(str, operand1, operand2)
    ELSE IF str = lea THEN word_lea(operand1, operand2)
    ELSE IF str \in NoOperandNames THEN word_zero(str, operand1, operand2)
    ELSE IF str \in OpcodeNames THEN word_one(str, operand1, operand2)
    ELSE Result(0, <<>>, <<>>, FALSE)

skip_space(str, i) == i + strspn(Drop(str, i), WS)
valid_register_at(str, i) ==
    ~(i >= Len(str) \/ At(str, i) # "r" \/ i + 1 >= Len(str)
      \/ ~isdigit(At(str, i + 1)) \/ At(str, i + 1) \notin OctalSet)

Invalid(msg) == [ret |-> 0, errs |-> <<msg>>]
Valid == [ret |-> 1, errs |-> <<>>]

\* is_valid_matrix, one operator per step of the scan; i is the position
\* the scan has reached
matrix_close2(str, i) ==
    IF i >= Len(str) \/ At(str, i) # "]" THEN Invalid(": error! Invalid matrix")
    ELSE IF \E k \in (i + 1)..(Len(str) - 1) : ~isspace(At(str, k)) /\ At(str, k) # ","
    THEN Invalid(": error! Invalid matrix")
    ELSE Valid

matrix_reg2(str, i) ==
    IF ~valid_register_at(str, i)
    THEN Invalid(": error! Invalid matrix a valid register must appear")
    ELSE matrix_close2(str, skip_space(str, i + 2))

\* a missing second '[' records the diagnostic and returns 1
matrix_open2(str, i) ==
    IF i >= Len(str) \/ At(str, i) # "["
    THEN [ret |-> 1, errs |-> <<": error! Invalid matrix">>]
    ELSE matrix_reg2(str, skip_space(str, i + 1))

matrix_close1(str, i) ==
    IF i >= Len(str) \/ At(str, i) # "]" THEN Invalid(": error! Invalid matrix")
    ELSE matrix_open2(str, i + 1)

matrix_reg1(str, i) ==
    IF ~valid_register_at(str, i)
    THEN Invalid(": error! Invalid matrix a valid register must appear")
    ELSE matrix_close1(str, skip_space(str, i + 2))

matrix_open1(str, i) ==
    IF i >= Len(str) \/ At(str, i) # "[" THEN Invalid(": error! Invalid matrix")
    ELSE matrix_reg1(str, skip_space(str, i + 1))

matrix_name(str, i) ==
    IF ~isalpha(At(str, i))
    THEN Invalid(": error! Invalid matrix. Matrix name must appear and begin with a letter")
    ELSE matrix_open1(str, i + 1 + strspn(Drop(str, i + 1), LowerSet \cup UpperSet \cup DigitSet))

is_valid_matrix(str) == matrix_name(str, skip_space(str, 0))

delimitersMat == {" ", "[", "]", "\t"}
delim == {" ", "\t", "r", "#"}

\* update(), case IMMEDIATE: the token and what strtol made of it
update_immediate(str_p1, number) ==
    IF str_p1 = NULL THEN Result(0, <<>>, <<>>, TRUE)
    ELSE IF number.end # Len(str_p1)
    THEN Result(0, <<>>, <<": error! an immediate operand must contain a number.">>, FALSE)
    ELSE Result(1, <<AddressWord(number.val, ABSOLUTE)>>, <<>>, FALSE)

\* update(), case MATRIX: the two register tokens are handed to memmove
update_matrix(valid, reg1mat, reg2mat) ==
    IF valid.ret = 0 THEN Result(0, <<>>, valid.errs, FALSE)
    ELSE IF reg1mat = NULL \/ reg2mat = NULL THEN Result(0, <<>>, valid.errs, TRUE)
    ELSE Result(1, <<AddressWord(NO_KNEWN, NO_KNEWN),
                     RegisterWord(atoi(Tail(reg1mat)), atoi(Tail(reg2mat)), ABSOLUTE)>>,
                valid.errs, FALSE)

\* update(), case REGISTER: the register numbers are read with atoi
update_register(word2, operand2, str_p1, str_p2) ==
    IF str_p1 = NULL \/ (operand2 = REGISTER /\ str_p2 = NULL)
    THEN Result(0, <<>>, <<>>, TRUE)
    ELSE IF operand2 = REGISTER
    THEN Result(1, <<RegisterWord(atoi(str_p1), atoi(str_p2), ABSOLUTE)>>, <<>>, FALSE)
    ELSE IF word2 = NULL
    THEN Result(1, <<RegisterWord(0, atoi(str_p1), ABSOLUTE)>>, <<>>, FALSE)
    ELSE Result(1, <<RegisterWord(atoi(str_p1), 0, ABSOLUTE)>>, <<>>, FALSE)

update_tokens(word1, word2, operand1, operand2, str_p1) ==
    CASE operand1 = IMMEDIATE -> update_immediate(str_p1, strtol(str_p1))
      [] operand1 = DIRECT -> Result(1, <<AddressWord(NO_KNEWN, NO_KNEWN)>>, <<>>, FALSE)
      [] operand1 = MATRIX ->
           update_matrix(is_valid_matrix(word1), strtok(word1, delimitersMat, 2),
                         strtok(word1, delimitersMat, 3))
      [] operand1 = REGISTER ->
           update_register(word2, operand2, str_p1,
                           IF word2 # NULL THEN strtok(word2, delim, 1) ELSE NULL)
      [] OTHER -> Result(0, <<>>, <<": error! unknown operand">>, FALSE)

\* update(): the words of one operand; a NULL token handed to strtol, atoi
\* or memmove is undefined behaviour (ub)
update(word1, word2, operand1, operand2) ==
    update_tokens(word1, word2, operand1, operand2, strtok(word1, delim, 1))

\* the trailing white space of s cut off
RECURSIVE rtrim(_)
rtrim(s) == IF s # <<>> /\ isspace(s[Len(s)]) THEN rtrim(Take(s, Len(s) - 1)) ELSE s

trim_space(str) == rtrim(Drop(str, strspn(str, WS)))

\* index of the last ']' (strrchr), 0-based, or -1
last_bracket(str) ==
    IF \E k \in 1..Len(str) : str[k] = "]"
    THEN (CHOOSE k \in 1..Len(str) : str[k] = "]" /\ \A j \in (k + 1)..Len(str) : str[j] # "]") - 1
    ELSE -1

\* parse_ops without a comma: a space that no ']' follows separates operands
parse_ops_space(len, space_ptr, bracket) ==
    IF space_ptr < len /\ (bracket = -1 \/ space_ptr > bracket)
    THEN Invalid(": error! there must be a comma between operands.")
    ELSE Valid

\* parse_ops with one comma: the texts on both sides of it
parse_ops_comma(op1_start, op2_start) ==
    IF Len(op1_start) = 0 \/ Len(op2_start) = 0
    THEN Invalid(": error! a comma cannot be placed at the start or end of the line.")
    ELSE Valid

\* parse_ops on the trimmed text; comma_ptr = len stands for no comma
parse_ops_trimmed(str, len, comma_ptr) ==
    IF comma_ptr < len /\ strcspn(Drop(str, comma_ptr + 1), {","}) < len - comma_ptr - 1
    THEN Invalid(": error! there must be only one comma between operands.")
    ELSE IF len = 0 THEN Valid
    ELSE IF comma_ptr = len
    THEN parse_ops_space(len, strcspn(str, {" "}), last_bracket(str))
    ELSE parse_ops_comma(trim_space(Take(str, comma_ptr)),
                         Drop(str, skip_space(str, comma_ptr + 1)))

parse_ops_str(str) == parse_ops_trimmed(str, Len(str), strcspn(str, {","}))

parse_ops(ops_str) == IF ops_str = NULL THEN Valid ELSE parse_ops_str(trim_space(ops_str))

(***************************************************************************)
(* code.c: string_without_first_word                                       *)
(***************************************************************************)
\* the text after the first word of p and the delimiters that follow it
rest_of(p, len, delims) ==
    IF len = Len(p) \/ Drop(p, len + strspn(Drop(p, len), delims)) = <<>>
    THEN NULL
    ELSE Drop(p, len + strspn(Drop(p, len), delims))

first_word_at(p, delims) == rest_of(p, strcspn(p, delims), delims)

string_without_first_word(str, delims) == first_word_at(Drop(str, strspn(str, delims)), delims)

delimiters == {" ", ",", "\t"}
delimiters2 == {","}
EXIT_C == <<"E", "X", "I", "T">>

\* instruction(), lines 226-242: the Command word, then the operand words;
\* what update() returns is not looked at
instruction_words(temp, u1, u2) ==
    IF temp.ret # 1 THEN Result(1, temp.words, temp.errs, FALSE)
    ELSE IF u1.ub THEN Result(1, temp.words, temp.errs \o u1.errs, TRUE)
    ELSE Result(1, temp.words \o u1.words \o u2.words,
                temp.errs \o u1.errs \o u2.errs, u2.ub)

instruction_update1(word2, word3, operand1, operand2) ==
    IF word2 # NULL /\ operand1 # NO_OPERAND
    THEN update(word2, word3, operand1, operand2)
    ELSE Result(1, <<>>, <<>>, FALSE)

instruction_update2(word3, operand1, operand2) ==
    IF operand1 = REGISTER /\ operand2 = REGISTER THEN Result(1, <<>>, <<>>, FALSE)
    ELSE IF word3 # NULL /\ operand1 # NO_OPERAND
    THEN update(word3, NULL, operand2, 0)
    ELSE Result(1, <<>>, <<>>, FALSE)

\* instruction(), lines 202-225
instruction_checks(word1, word2, word3, word4, operand1, operand2, tmp, ops) ==
    IF tmp # NULL /\ tmp = EXIT_C THEN Result(EXIT, <<>>, <<>>, FALSE)
    ELSE IF word4 # NULL
    THEN Result(0, <<>>, <<": error! More operands than allowed">>, FALSE)
    ELSE IF ops.ret = 0 THEN Result(0, <<>>, ops.errs, FALSE)
    ELSE instruction_words(word(word1, operand1, operand2),
                           instruction_update1(word2, word3, operand1, operand2),
                           instruction_update2(word3, operand1, operand2))

instruction_operands(w, tmp) ==
    instruction_checks(w[1], w[2], w[3], w[4],
                       IF w[2] = NULL THEN NO_OPERAND ELSE which_type_operand(w[2]),
                       IF w[3] = NULL THEN NO_OPERAND ELSE which_type_operand(w[3]),
                       tmp, parse_ops(tmp))

\* instruction(): one instruction line without its label
instruction(str) ==
    instruction_operands(strtok_calls(str, <<delimiters, delimiters2, delimiters2, delimiters>>),
                         string_without_first_word(str, delimiters))

(***************************************************************************)
(* directive.c: .data, .string and .mat                                    *)
(***************************************************************************)
\* is_conversion_successful on a token and what strtol made of it
conversion(str, number) ==
    IF number.end = 0 \/ number.end # Len(str) THEN Invalid(": error! invalid characters")
    ELSE IF number.val > MAX_VAL \/ number.val < MIN_VAL
    THEN Invalid(": error! the value is too large or too small")
    ELSE Valid

is_conversion_successful(str) == conversion(str, strtol(str))

is_valid_numbers(str) ==
    IF \E i \in 0..(Len(str) - 1) : At(str, i) = "," /\ At(str, i + 1) = "," THEN 0
    ELSE IF At(str, 0) = "," \/ At(str, Len(str) - 1) = "," THEN 0
    ELSE 1

\* the loop over the number tokens: values are added until a token fails
\* or limit values were added
RECURSIVE add_numbers(_, _, _)
add_numbers(tokens, limit, acc) ==
    IF tokens = <<>> \/ Len(acc.words) >= limit THEN acc
    ELSE IF is_conversion_successful(Head(tokens)).ret = 0
    THEN [acc EXCEPT !.ret = 0, !.errs = is_conversion_successful(Head(tokens)).errs]
    ELSE add_numbers(Tail(tokens), limit,
                     [acc EXCEPT !.words = @ \o <<strtol(Head(tokens)).val>>])

data_delimiters == {"\t", " ", ","}

\* data_update, lines 100-113: every token is converted
data_tokens(tokens) == add_numbers(tokens, Len(tokens), Result(1, <<>>, <<>>, FALSE))

data_numbers(str_cpy) ==
    IF is_valid_numbers(str_cpy) = 0
    THEN Result(1, <<>>, <<": error! invalid data string">>, FALSE)
    ELSE data_tokens(strtok_all(str_cpy, data_delimiters))

data_update(wordp) ==
    IF wordp # NULL /\ ~only_spaces_and_tabs(wordp)
    THEN data_numbers(Take(wordp, end_of_string(wordp)))
    ELSE Result(1, <<>>, <<": error! invalid data string, data string should have values">>, FALSE)

is_valid_string_at(str, begin, end) ==
    IF At(str, begin) # "\"" \/ At(str, end - 1) # "\""
    THEN Invalid(": error! String must start and end with quotes")
    ELSE IF \E i \in (begin + 1)..(end - 1) : At(str, i) \notin PrintableSet
    THEN Invalid(": error! illegal characters in a string")
    ELSE Valid

is_valid_string(str) == is_valid_string_at(str, begin_of_string(str), end_of_string(str))

string_data(wordp, end, valid) ==
    IF valid.ret = 1
    THEN Result(1, [i \in 1..(end - 2) |-> Ascii(At(wordp, i))] \o <<0>>, <<>>, FALSE)
    ELSE Result(1, <<>>, valid.errs, FALSE)

string_update(wordp) == string_data(wordp, end_of_string(wordp), is_valid_string(wordp))

skip_digits(str, i) == i + strspn(Drop(str, i), DigitSet)

\* matrix_definition_valid, one operator per step of the scan
dimension_close2(str, i) ==
    IF i >= Len(str) \/ At(str, i) # "]" THEN 0
    ELSE IF ~isspace(At(str, i + 1)) THEN 0
    ELSE 1

dimension_digits2(str, i) ==
    IF i >= Len(str) \/ ~isdigit(At(str, i)) THEN 0
    ELSE dimension_close2(str, skip_space(str, skip_digits(str, i)))

dimension_open2(str, i) ==
    IF i >= Len(str) \/ At(str, i) # "[" THEN 0
    ELSE dimension_digits2(str, skip_space(str, i + 1))

dimension_close1(str, i) ==
    IF i >= Len(str) \/ At(str, i) # "]" THEN 0 ELSE dimension_open2(str, i + 1)

dimension_digits1(str, i) ==
    IF i >= Len(str) \/ ~isdigit(At(str, i)) THEN 0
    ELSE dimension_close1(str, skip_space(str, skip_digits(str, i)))

dimension_open1(str, i) ==
    IF i >= Len(str) \/ At(str, i) # "[" THEN 0
    ELSE dimension_digits1(str, skip_space(str, i + 1))

matrix_definition_valid(str) == dimension_open1(str, skip_space(str, 0))

mat_delimiters == {"\t", " ", ",", "[", "]"}
Zeros(n) == [k \in 1..n |-> 0]

\* mat_update, lines 207-223: missing cells are filled while num <= cells
mat_pad(cells, vals) ==
    IF vals.ret = 0 THEN vals
    ELSE IF Len(vals.words) < cells
    THEN Result(1, vals.words \o Zeros(cells - Len(vals.words) + 1), <<>>, FALSE)
    ELSE Result(1, vals.words, <<>>, FALSE)

\* mat_update, lines 189-206: the initializers, at most cells of them
mat_values(cells, init) ==
    IF is_valid_numbers(init) = 0
    THEN Result(0, <<>>, <<": error! invalid numbers string">>, FALSE)
    ELSE mat_pad(cells, add_numbers(strtok_all(init, mat_delimiters), cells,
                                    Result(1, <<>>, <<>>, FALSE)))

\* mat_update, lines 177-186
mat_cells(str4, succ1, succ2, cells) ==
    IF succ1.ret # 1 \/ succ2.ret # 1
    THEN Result(0, <<>>, succ1.errs \o succ2.errs, str4 = NULL)
    ELSE IF str4 = NULL THEN Result(0, Zeros(cells), <<>>, TRUE)
    ELSE mat_values(cells, Take(str4, end_of_string(str4)))

\* mat_update, lines 164-176: str3 and str4 are handed to strcmp without a
\* NULL test, which is undefined behaviour when the dimensions are followed
\* by no initializer (ub)
mat_dimensions(wordp, str1, str2, str4) ==
    IF str1 = NULL THEN Result(0, <<>>, <<": error! invalid data matrix">>, str4 = NULL)
    ELSE IF matrix_definition_valid(wordp) = 0
    THEN Result(0, <<>>, <<": error! an ill-defined matrix">>, str4 = NULL)
    ELSE mat_cells(str4, is_conversion_successful(str1), is_conversion_successful(str2),
                   strtol(str1).val * strtol(str2).val)

mat_initializer(wordp, str3) ==
    mat_dimensions(wordp, strtok(wordp, mat_delimiters, 1), strtok(wordp, mat_delimiters, 2),
                   IF str3 = NULL THEN NULL ELSE string_without_first_word(str3, mat_delimiters))

mat_update(wordp) == mat_initializer(wordp, string_without_first_word(wordp, mat_delimiters))

directive_delimiters == {" ", "\t"}

directive_command(word1, word2) ==
    IF word1 = Chars(".data") THEN data_update(word2)
    ELSE IF word2 = NULL THEN Result(1, <<>>, <<>>, TRUE)
    ELSE IF word1 = Chars(".string") THEN string_update(word2)
    ELSE IF word1 = Chars(".mat") THEN mat_update(word2)
    ELSE Result(1, <<>>, <<": error! unknown directive command name">>, FALSE)

directive_result(null2, r) == [r EXCEPT !.ret = 1, !.ub = @ \/ null2]

\* directive(): word2 is handed to strcmp without a NULL test (ub)
directive_words(word1, word2) ==
    IF word2 # NULL /\ word2 = EXIT_C THEN Result(EXIT, <<>>, <<>>, FALSE)
    ELSE directive_result(word2 = NULL, directive_command(word1, word2))

directive(str) ==
    directive_words(strtok(str, directive_delimiters, 1),
                    string_without_first_word(str, directive_delimiters))

(***************************************************************************)
(* pre_assembler.c: reserved words and macro names                         *)
(***************************************************************************)
RESERVED_WORDS ==
    {Chars(Opcodes[k]) : k \in 1..16} \cup
    {Chars("data"), Chars("string"), Chars("mat"), Chars("entry"), Chars("extern"),
     Chars(".data"), Chars(".string"), Chars(".mat"), Chars(".entry"), Chars(".extern"),
     Chars("mcro"), Chars("mcroend"),
     Chars("r0"), Chars("r1"), Chars("r2"), Chars("r3"),
     Chars("r4"), Chars("r5"), Chars("r6"), Chars("r7")}

is_reserved_word(token) == IF token \in RESERVED_WORDS THEN 1 ELSE 0

\* the macro table is a sequence of [name, lines], newest first
same_name_as_macro(macros_list_head, wordp) ==
    IF \E k \in 1..Len(macros_list_head) : macros_list_head[k].name = wordp THEN 1 ELSE 0

(***************************************************************************)
(* data.c and code.c: the symbol table                                     *)
(***************************************************************************)
Label(name, type, index, en) == [name |-> name, type |-> type, index |-> index, en |-> en]

\* search_label() without the branch for EXTERN at lines 596-600
search_label_hit_mut(labeltable, str, type) ==
    LET hits == {i \in 1..Len(labeltable) :
                    /\ labeltable[i].name = str
                    /\ \/ type = ENTRY
                       \/ type \in {INSTRUCTION, DIRECTIVE} /\ labeltable[i].en = ENTRY}
    IN  IF hits = {} THEN 0 ELSE CHOOSE i \in hits : \A j \in hits : i <= j

\* the first table entry search_label acts on, or 0
search_label_hit(labeltable, str, type) ==
    LET hits == {i \in 1..Len(labeltable) :
                    /\ labeltable[i].name = str
                    /\ \/ type \in {EXTERN, ENTRY}
                       \/ type \in {INSTRUCTION, DIRECTIVE} /\ labeltable[i].en = ENTRY}
    IN  IF hits = {} THEN 0 ELSE CHOOSE i \in hits : \A j \in hits : i <= j

add_label(labeltable, str, type, ic, dc) ==
    LET i == search_label_hit(labeltable, str, type)
    IN  IF i # 0
        THEN IF type \in {EXTERN, ENTRY}
             THEN Put(labeltable, i, [labeltable[i] EXCEPT !.en = type])
             ELSE Put(labeltable, i,
                      [labeltable[i] EXCEPT !.type = type,
                                            !.index = IF type = DIRECTIVE THEN dc ELSE ic])
        ELSE Append(labeltable,
                 IF type = INSTRUCTION THEN Label(str, type, ic, 0)
                 ELSE IF type = DIRECTIVE THEN Label(str, type, dc, 0)
                 ELSE Label(str, 0, 0, type))

\* valid_label: the first existing entry with the name decides
valid_label(str, labeltable, macrostable) ==
    LET begin == begin_of_string(str)
        same == {i \in 1..Len(labeltable) : labeltable[i].name = str}
        bad == {i \in same : ~(labeltable[i].en = ENTRY /\ labeltable[i].type = 0
                               /\ labeltable[i].index = 0)}
        first == CHOOSE i \in bad : \A j \in bad : i <= j
    IN  IF isdigit(At(str, begin)) \/ At(str, begin) = "_"
        THEN Invalid(": error! Label starts with a digit or an underscore")
        ELSE IF Len(str) - begin > MAX_SIZE_LABEL
        THEN Invalid(": error! Label too long (max 30 characters)")
        ELSE IF \E k \in 1..Len(str) : ~isalnum(str[k]) /\ str[k] # "_"
        THEN Invalid(": error! Label with non-alphanumeric characters")
        ELSE IF bad # {}
        THEN IF labeltable[first].en = EXTERN
             THEN Invalid(": error! Label name already defined as external")
             ELSE Invalid(": error! Label name already defined")
        ELSE IF is_reserved_word(str) = 1
        THEN Invalid(": error! The label name is a reserved word")
        ELSE IF same_name_as_macro(macrostable, str) = 1
        THEN Invalid(": error! The label name has already been defined as a macro")
        ELSE Valid

is_label(str) == IF str # NULL /\ str # <<>> /\ str[Len(str)] = ":" THEN 1 ELSE 0

Directives == {Chars(".data"), Chars(".string"), Chars(".mat")}

\* which_type on a token; check_for_valid = UPDATE records the diagnostic
which_type(str, check_for_valid) ==
    IF str = NULL THEN [ret |-> UNRECOGNIZED, errs |-> <<": error! Unrecognized command name">>]
    ELSE IF str \in Directives THEN [ret |-> DIRECTIVE, errs |-> <<>>]
    ELSE IF str \in OpcodeNames THEN [ret |-> INSTRUCTION, errs |-> <<>>]
    ELSE IF str = Chars(".entry") THEN [ret |-> ENTRY, errs |-> <<>>]
    ELSE IF str = Chars(".extern") THEN [ret |-> EXTERN, errs |-> <<>>]
    ELSE [ret |-> UNRECOGNIZED,
          errs |-> IF check_for_valid = UPDATE
                   THEN <<": error! Unrecognized command name">> ELSE <<>>]

\* search_entery_and_update: every entry with the name is marked or
\* diagnosed; without a marked entry add_label(str, ENTRY) follows
search_entery_and_update(str, labeltable) ==
    LET same == {i \in 1..Len(labeltable) : labeltable[i].name = str}
        free == {i \in same : labeltable[i].en \notin {ENTRY, EXTERN}}
        marked == [i \in 1..Len(labeltable) |->
                     IF i \in free THEN [labeltable[i] EXCEPT !.en = ENTRY] ELSE labeltable[i]]
        errs == [k \in 1..Cardinality(same \ free) |-> ": error! invalid enternal label"]
    IN  [labeltable |-> IF free = {} THEN add_label(marked, str, ENTRY, 0, 0) ELSE marked,
         errs |-> errs]


(***************************************************************************)
(* code.c: first_pass on one line                                          *)
(***************************************************************************)
delims == {" ", "\t"}

Pass1(ret, labeltable, ins, data, errs, ub) ==
    [ret |-> ret, labeltable |-> labeltable, ins |-> ins, data |-> data,
     errs |-> errs, ub |-> ub]

\* what lines 198-243 leave for the dispatch on the command type; ret = 0
\* stands for the jump to clean_and_return_zero
Dispatch(ret, type, strptr, labeltable, errs) ==
    [ret |-> ret, type |-> type, strptr |-> strptr, labeltable |-> labeltable, errs |-> errs]

\* lines 244-247: the data words of a directive line
first_pass_directive(labeltable, errs, r) ==
    Pass1(IF r.ret = EXIT THEN EXIT ELSE 1, labeltable, <<>>, r.words, errs \o r.errs, r.ub)

\* lines 248-251: the instruction words of an instruction line
first_pass_instruction(labeltable, errs, r) ==
    Pass1(IF r.ret = EXIT THEN EXIT ELSE 1, labeltable, r.words, <<>>, errs \o r.errs, r.ub)

\* lines 252-265: a missing name is handed to add_label as NULL (ub)
first_pass_extern(labeltable, errs, word2, word3) ==
    IF word3 # NULL
    THEN Pass1(1, labeltable, <<>>, <<>>, errs \o <<": error! invalid external label">>, FALSE)
    ELSE IF word2 = NULL THEN Pass1(1, labeltable, <<>>, <<>>, errs, TRUE)
    ELSE Pass1(1, add_label(labeltable, word2, EXTERN, 0, 0), <<>>, <<>>, errs, FALSE)

first_pass_entered(errs, en) == Pass1(1, en.labeltable, <<>>, <<>>, errs \o en.errs, FALSE)

\* lines 266-279
first_pass_entry(labeltable, errs, word2, word3) ==
    IF word3 # NULL
    THEN Pass1(1, labeltable, <<>>, <<>>, errs \o <<": error! invalid enternal label">>, FALSE)
    ELSE IF word2 = NULL THEN Pass1(1, labeltable, <<>>, <<>>, errs, TRUE)
    ELSE first_pass_entered(errs, search_entery_and_update(word2, labeltable))

\* lines 244-283: the dispatch of first_pass on the command type
first_pass_type(type, strptr, labeltable, errs) ==
    CASE type = DIRECTIVE -> first_pass_directive(labeltable, errs, directive(strptr))
      [] type = INSTRUCTION -> first_pass_instruction(labeltable, errs, instruction(strptr))
      [] type = EXTERN ->
           first_pass_extern(labeltable, errs, strtok(strptr, delims, 2), strtok(strptr, delims, 3))
      [] type = ENTRY ->
           first_pass_entry(labeltable, errs, strtok(strptr, delims, 2), strtok(strptr, delims, 3))
      [] OTHER -> Pass1(1, labeltable, <<>>, <<>>, errs, FALSE)

first_pass_dispatch(d) ==
    IF d.ret = 0 THEN Pass1(0, d.labeltable, <<>>, <<>>, d.errs, FALSE)
    ELSE first_pass_type(d.type, d.strptr, d.labeltable, d.errs)

\* lines 212-226: a line that starts with a label
first_pass_label(str, labeltable, ic, dc, name, type, valid) ==
    IF valid.ret = 0 \/ type.ret = UNRECOGNIZED
    THEN Dispatch(0, type.ret, NULL, labeltable, type.errs \o valid.errs)
    ELSE Dispatch(1, type.ret, string_without_first_word(str, delimiters),
                  IF type.ret \notin {EXTERN, ENTRY}
                  THEN add_label(labeltable, name, type.ret, ic, dc)
                  ELSE labeltable,
                  <<>>)

\* lines 227-243: a line without a label
first_pass_plain(str, labeltable, type) == Dispatch(1, type.ret, str, labeltable, type.errs)

\* lines 200-243; i is the position of the first ':' of the line
first_pass_words(str, labeltable, macrostable, ic, dc, word1, word2, i) ==
    IF Len(str) # i /\ At(str, i + 1) \notin {" ", "\t"}
    THEN Dispatch(0, UNRECOGNIZED, NULL, labeltable,
                  <<": error! there must be a space or tab after a label">>)
    ELSE IF is_label(word1) = 1
    THEN first_pass_label(str, labeltable, ic, dc, Take(word1, Len(word1) - 1),
                          which_type(word2, UPDATE),
                          valid_label(Take(word1, Len(word1) - 1), labeltable, macrostable))
    ELSE first_pass_plain(str, labeltable, which_type(word1, UPDATE))

first_pass(str, labeltable, macrostable, ic, dc) ==
    first_pass_dispatch(
        first_pass_words(str, labeltable, macrostable, ic, dc,
                         strtok(str, delimiters, 1), strtok(str, delimiters, 2),
                         strcspn(str, {":"})))

(***************************************************************************)
(* second_pass.c: relocation fix-up and the second pass on one line        *)
(***************************************************************************)
index_update(labeltable, ic) ==
    [i \in 1..Len(labeltable) |->
        IF labeltable[i].type = DIRECTIVE
        THEN [labeltable[i] EXCEPT !.index = @ + ic + MEMORY_START]
        ELSE IF labeltable[i].type = INSTRUCTION
        THEN [labeltable[i] EXCEPT !.index = @ + MEMORY_START]
        ELSE labeltable[i]]

\* the state the second pass works on
Pass2(instable, extable, errs, ic2) ==
    [instable |-> instable, extable |-> extable, errs |-> errs, ic2 |-> ic2,
     ret |-> 1, ub |-> FALSE]

\* instable[k] (0-based) of the zero-initialised table
Slot(instable, k) == IF k < Len(instable) THEN instable[k + 1] ELSE ZeroWord

\* instable with entry k (0-based) replaced, the entries before it kept
Store(instable, k, w) ==
    [j \in 1..(IF k + 1 > Len(instable) THEN k + 1 ELSE Len(instable)) |->
        IF j = k + 1 THEN w ELSE Slot(instable, j - 1)]

\* the first table entry with the name, 1-based, or 0
first_label(labeltable, str) ==
    IF \E i \in 1..Len(labeltable) : labeltable[i].name = str
    THEN CHOOSE i \in 1..Len(labeltable) :
             /\ labeltable[i].name = str
             /\ \A j \in 1..(i - 1) : labeltable[j].name # str
    ELSE 0

\* search_and_update, lines 279-298, on the first entry with the name
update_address(str, st, label) ==
    IF label.en = EXTERN
    THEN [st EXCEPT
            !.instable = Store(@, st.ic2,
                               [Slot(@, st.ic2) EXCEPT !.type = "RECORD_TYPE_ADDRESS",
                                                       !.u0 = 0, !.u1 = EXTERNAL]),
            !.extable = Append(@, [name |-> str, index |-> st.ic2 + MEMORY_START])]
    ELSE [st EXCEPT
            !.instable = Store(@, st.ic2,
                               [Slot(@, st.ic2) EXCEPT !.type = "RECORD_TYPE_ADDRESS",
                                                       !.u0 = label.index,
                                                       !.u1 = RELOCATABLE])]

search_label(str, st, labeltable, i) ==
    IF i = 0 THEN [st EXCEPT !.errs = @ \o <<": error! Label name is not defined">>]
    ELSE IF st.ic2 >= MAX_SIZE_MEMORY THEN [st EXCEPT !.ub = TRUE]
    ELSE update_address(str, st, labeltable[i])

\* search_and_update: a NULL name is handed to strcmp, and a word past the
\* end of the table is written (ub)
search_and_update(str, st, labeltable) ==
    IF str = NULL THEN [st EXCEPT !.ub = TRUE]
    ELSE search_label(str, st, labeltable, first_label(labeltable, str))

Bump(st, n) == [st EXCEPT !.ic2 = @ + n]

\* one operand of instruction_uptade_address, of addressing mode type
update_operand_type(wordp, st, labeltable, type) ==
    IF type \in {MATRIX, DIRECT}
    THEN Bump(search_and_update(IF type = MATRIX THEN strtok(wordp, delimitersMat, 1) ELSE wordp,
                                st, labeltable),
              IF type = MATRIX THEN 2 ELSE 1)
    ELSE Bump(st, 1)

update_operand(wordp, st, labeltable) ==
    update_operand_type(wordp, st, labeltable, which_type_operand(wordp))

\* lines 237-240: two registers share one word
address_registers(word1, word2, st) ==
    IF which_type_operand(word1) = REGISTER /\ which_type_operand(word2) = REGISTER
    THEN Bump(st, -1)
    ELSE st

\* lines 202-216 and 221-235: the second operand
address_second(word1, word2, st, labeltable) ==
    address_registers(word1, word2,
        IF word1 = NULL \/ word2 = NULL THEN st ELSE update_operand(word2, st, labeltable))

\* lines 187-201 and 218-220: the Command word and the first operand
address_first(word1, word2, st, labeltable) ==
    address_second(word1, word2,
        IF word1 = NULL THEN Bump(st, 1) ELSE update_operand(word1, Bump(st, 1), labeltable),
        labeltable)

\* lines 171-186: the trailing blanks of both operands are cut
address_words(raw1, raw2, st, labeltable) ==
    address_first(IF raw1 = NULL THEN NULL ELSE Take(raw1, end_of_string(raw1)),
                  IF raw2 = NULL THEN NULL ELSE Take(raw2, end_of_string(raw2)),
                  st, labeltable)

instruction_uptade_address(str, st, labeltable) ==
    address_words(strtok(str, delimiters2, 1), strtok(str, delimiters2, 2), st, labeltable)

\* second_pass, lines 86-88: the text after the label and the mnemonic
second_pass_rest(rest) ==
    IF rest = NULL THEN NULL ELSE string_without_first_word(rest, delimiters)

\* second_pass, lines 89-99; null1 says that string_without_first_word was
\* handed a NULL pointer (ub)
second_pass_operands(st, labeltable, null1, str1) ==
    IF null1 THEN [st EXCEPT !.ub = TRUE]
    ELSE IF str1 # NULL /\ str1 = EXIT_C THEN [st EXCEPT !.ret = EXIT]
    ELSE IF str1 # NULL THEN instruction_uptade_address(str1, st, labeltable)
    ELSE st

\* second_pass, lines 82-120
second_pass_type(str, st, labeltable, word1, type) ==
    IF type = INSTRUCTION
    THEN second_pass_operands(st, labeltable,
             is_label(word1) = 1 /\ string_without_first_word(str, delimiters) = NULL,
             IF is_label(word1) = 1
             THEN second_pass_rest(string_without_first_word(str, delimiters))
             ELSE string_without_first_word(str, delims))
    ELSE IF type = DIRECTIVE /\ is_label(word1) = 0
    THEN search_and_update(Take(word1, Len(word1) - 1), st, labeltable)
    ELSE st

\* second_pass, lines 72-81: type2 is 0 when there is no second word
second_pass_words(str, st, labeltable, word1, word2, t1) ==
    second_pass_type(str, [st EXCEPT !.errs = @ \o (IF word1 = NULL THEN t1.errs ELSE <<>>)],
                     labeltable, word1,
                     IF t1.ret # UNRECOGNIZED THEN t1.ret
                     ELSE IF word2 # NULL THEN which_type(word2, NOT_UPDATE).ret
                     ELSE 0)

second_pass_tokens(str, st, labeltable, word1, word2) ==
    second_pass_words(str, st, labeltable, word1, word2, which_type(word1, NOT_UPDATE))

second_pass(str, st, labeltable) ==
    second_pass_tokens(str, st, labeltable,
                       strtok(str, delimiters, 1), strtok(str, delimiters, 2))

(***************************************************************************)
(* pre_assembler.c: the macro pass                                         *)
(***************************************************************************)
MAX_LABEL_LENGTH == 30
mcro == <<"m", "c", "r", "o">>
mcroend == <<"m", "c", "r", "o", "e", "n", "d">>

non_empty(str) == IF str = <<>> THEN NULL ELSE str

\* the line up to a ';', without the whitespace around it, or NULL
trim_whitespace_and_comments(str) == non_empty(trim_space(Take(str, strcspn(str, {";"}))))

\* the token of n characters at start and the text after it
token_end(start, n) ==
    IF At(start, n) = ":" THEN [tok |-> Take(start, n), rest |-> Drop(start, n + 1)]
    ELSE [tok |-> Take(start, n), rest |-> Drop(start, n + strspn(Drop(start, n), WS))]

token_at(start) ==
    IF start = <<>> THEN [tok |-> NULL, rest |-> <<>>]
    ELSE token_end(start, strcspn(start, WS \cup {":"}))

\* the next token (it ends at whitespace or at a ':') and the text after it
get_next_token(line_ptr) == token_at(Drop(line_ptr, strspn(line_ptr, WS)))

is_valid_macro_name(name) ==
    IF ~isalpha(At(name, 0)) THEN 0
    ELSE IF \E i \in 1..(Len(name) - 1) : ~isalnum(At(name, i)) /\ At(name, i) # "_" THEN 0
    ELSE 1

\* a blank or comment line is skipped by both sub-passes
skipped_line(line) == At(line, strspn(line, WS)) \in {";", NUL}

\* the label test of both sub-passes: the token returned by get_next_token
\* is searched for a ':'
skip_label(t1) ==
    IF t1.tok # NULL /\ \E k \in 1..Len(t1.tok) : t1.tok[k] = ":"
    THEN get_next_token(t1.rest)
    ELSE t1

actual_first_token(line) == skip_label(get_next_token(line))

MacroErr(line_num, msg) == [line |-> line_num, error |-> msg]

\* sub-pass A on a 'mcro' line; m is [in_def, current, macros, errs]
collect_mcro(line_num, m, cand) ==
    IF cand = NULL \/ Len(cand) = 0 \/ Len(cand) > MAX_LABEL_LENGTH
    THEN [m EXCEPT !.errs = Append(@, MacroErr(line_num,
             ": Invalid or missing macro name for 'mcro' directive."))]
    ELSE IF is_valid_macro_name(cand) = 0
    THEN [m EXCEPT !.errs = Append(@, MacroErr(line_num,
             ": Macro name contains invalid characters. Must start with a letter and be alphanumeric."))]
    ELSE IF is_reserved_word(cand) = 1
    THEN [m EXCEPT !.errs = Append(@, MacroErr(line_num,
             ": Macro name cannot be a reserved word (instruction, directive, or register)."))]
    ELSE IF same_name_as_macro(m.macros, cand) = 1
    THEN [m EXCEPT !.errs = Append(@, MacroErr(line_num,
             ": Macro with this name already defined (redefinition)."))]
    ELSE [m EXCEPT !.in_def = 1, !.current = [name |-> cand, lines |-> <<>>]]

\* sub-pass A on a 'mcroend' line; e1 is the diagnostic for trailing text
collect_mcroend(line_num, m, e1) ==
    IF m.in_def = 0
    THEN [m EXCEPT !.errs = @ \o e1 \o <<MacroErr(line_num,
             ": endmcro directive without a preceding mcro definition.")>>]
    ELSE [m EXCEPT !.errs = @ \o e1, !.in_def = 0, !.macros = <<m.current>> \o @]

\* sub-pass A on a line inside a definition
collect_body(m, content) ==
    IF m.in_def = 1 /\ content # NULL
    THEN [m EXCEPT !.current.lines = Append(@, content)]
    ELSE m

collect_token(line, line_num, m, t) ==
    IF skipped_line(line) \/ t.tok = NULL THEN m
    ELSE IF t.tok = mcro THEN collect_mcro(line_num, m, get_next_token(t.rest).tok)
    ELSE IF t.tok = mcroend
    THEN collect_mcroend(line_num, m,
             IF Drop(t.rest, strspn(t.rest, WS)) # <<>>
             THEN <<MacroErr(line_num, ": Unexpected text after 'endmcro'.")>>
             ELSE <<>>)
    ELSE collect_body(m, trim_whitespace_and_comments(line))

\* sub-pass A on one line
collect_line(line, line_num, m) == collect_token(line, line_num, m, actual_first_token(line))

RECURSIVE collect_macros(_, _, _)
collect_macros(lines, line_num, m) ==
    IF line_num > Len(lines) THEN m
    ELSE collect_macros(lines, line_num + 1, collect_line(lines[line_num], line_num, m))

find_macro_definition(macros_list_head, name) ==
    IF \E k \in 1..Len(macros_list_head) : macros_list_head[k].name = name
    THEN CHOOSE k \in 1..Len(macros_list_head) :
             /\ macros_list_head[k].name = name
             /\ \A j \in 1..(k - 1) : macros_list_head[j].name # name
    ELSE 0

\* the body of a called macro, each line after a tab
expand_call(body) ==
    [k \in 1..Len(body) |-> <<"\t">> \o trim_whitespace_and_comments(body[k])]

expand_token(line, macros_list_head, e, t, called_macro) ==
    IF skipped_line(line) \/ t.tok = NULL THEN e
    ELSE IF t.tok = mcro THEN [e EXCEPT !.in_def = 1]
    ELSE IF t.tok = mcroend THEN [e EXCEPT !.in_def = 0]
    ELSE IF e.in_def = 1 THEN e
    ELSE IF called_macro # 0
    THEN [e EXCEPT !.out = @ \o expand_call(macros_list_head[called_macro].lines)]
    ELSE [e EXCEPT !.out = Append(@, line)]

expand_first(line, macros_list_head, e, t) ==
    expand_token(line, macros_list_head, e, t, find_macro_definition(macros_list_head, t.tok))

\* sub-pass B on one line; e is [in_def, out]
expand_line(line, macros_list_head, e) ==
    expand_first(line, macros_list_head, e, actual_first_token(line))

RECURSIVE expand_macros(_, _, _, _)
expand_macros(lines, line_num, macros_list_head, e) ==
    IF line_num > Len(lines) THEN e
    ELSE expand_macros(lines, line_num + 1, macros_list_head,
                       expand_line(lines[line_num], macros_list_head, e))

\* the expanded source is written only without diagnostics
pre_assemble_write(macros, errs, out) ==
    [ret |-> 0, errs |-> errs, macros |-> macros,
     written |-> errs = <<>>, am |-> IF errs = <<>> THEN out ELSE <<>>]

pre_assemble_collected(lines, a) ==
    pre_assemble_write(a.macros,
        IF a.in_def = 1
        THEN Append(a.errs, MacroErr(Len(lines), ": Unclosed macro definition (missing endmcro)."))
        ELSE a.errs,
        expand_macros(lines, 1, a.macros, [in_def |-> 0, out |-> <<>>]).out)

\* pre_assemble: the diagnostics, the macro table and the expanded source
pre_assemble(lines) ==
    pre_assemble_collected(lines,
        collect_macros(lines, 1,
            [in_def |-> 0, current |-> [name |-> <<>>, lines |-> <<>>],
             macros |-> <<>>, errs |-> <<>>]))

(***************************************************************************)
(* The programs the assembler is run on.                                   *)
(***************************************************************************)
\* operand texts of each addressing mode, and the absent operand
OperandTexts == {"#5", "#-1", "K", "r2d2", "M[r1][r2]", "r3", "r7"}

InstructionLines ==
    {<<Opcodes[k]>> : k \in 1..16}
    \cup {<<Opcodes[k] \o " " \o a>> : k \in 1..16, a \in OperandTexts}
    \cup {<<Opcodes[k] \o " " \o a \o ", " \o b>> : k \in 1..16, a \in OperandTexts, b \in OperandTexts}

LinePool ==
    {"stop", "L: .data 7, -3", ".extern X", ".entry L", "L: mov r1, X", "jmp L",
     "mov X,L", "S: .string \"ab\"", "L: .mat [1][2] 4", "mov #1, #2", "; note", "jmp X"}

RECURSIVE SeqsUpTo(_, _)
SeqsUpTo(S, n) ==
    IF n = 0 THEN {<<>>}
    ELSE LET shorter == SeqsUpTo(S, n - 1)
         IN  shorter \cup {Append(t, x) : t \in {u \in shorter : Len(u) = n - 1}, x \in S}

Curated ==
    {<<"mcro m1", " inc r1", "mcroend", "m1", "stop">>,
     <<"mcro m1", " inc r1", "mcroend", "L: m1", "stop">>,
     <<"mcro m1", "mcro m2", " inc r1", "mcroend", "m2", "stop">>,
     <<"mcro m1", " inc r1 ; one", "L: dec r2", "mcroend", "m1", "stop">>,
     <<"mcroend", "stop">>,
     <<"mcro m2", "stop">>,
     <<"; only a comment">>,
     <<"jmp EXIT">>,
     <<"M: .mat [2][2] ", "stop">>,
     <<".data">>,
     <<"M: .mat [5][31] 0">>,
     <<"M: .mat [5][31] 0", "stop">>,
     <<"M: .mat [5][31] 0", "Z: .mat [2][0] 1", ".entry Z">>,
     <<".extern X", "mov #1, #2", "jmp X">>,
     <<".extern X", "stop", "jmp X">>,
     <<"Z: .mat [0][2] 1", "Y: .data 6", "mov Z, Y">>,
     <<"stop", "Z: .mat [0][2] 1">>,
     <<"M: .mat [1][1] 3, 4">>,
     <<"M: .mat [2][2] 1,2", "stop">>,
     <<"M: .mat [2][0] 1">>,
     <<"inc ,r1">>,
     <<"stop ,">>,
     <<"mov #x, r1">>,
     <<"prn #300">>,
     <<"M: .mat [1][1] 3", "mov M[r1][r2],r3", "stop">>,
     <<"cmp r3, #-128">>,
     <<".entry L", "L: stop", "L: .data 5">>,
     <<"stop", "L: inc r1", ".entry L">>,
     <<".extern L", ".entry L", ".extern L">>,
     <<".entry L", ".extern L", ".entry L">>,
     <<"L: stop", ".extern L", "L: stop">>,
     <<".extern L", "L: stop", ".entry L">>,
     <<".entry L", "stop", "L: inc r1">>,
     <<"A: mov M[r1][r2], B", "B: .data 1", "M: .mat [1][1] 3", "lea M[r0][r1] ,A">>,
     <<".extern .dat", ".data 1", ".data 2">>,
     <<"L:">>}

Programs ==
    InstructionLines \cup (SeqsUpTo(LinePool, MaxLines) \ {<<>>}) \cup Curated

\* the programs that are assembled together with another file
Companions == {<<"stop">>, <<"mcroend", "stop">>, <<"jmp K">>}

CommandLines ==
    {<<p>> : p \in Programs}
    \cup {t \in SeqsUpTo(Companions, MaxFiles) : Len(t) >= 2}

Source(program) == [k \in 1..Len(program) |-> Chars(program[k])]


(***************************************************************************)
(* data.c: the output files                                                 *)
(***************************************************************************)
\* the position in the table of the k-th symbol that is an entry
nth_entry(labeltable, k) ==
    CHOOSE n \in 1..Len(labeltable) :
        /\ labeltable[n].en = ENTRY
        /\ Cardinality({m \in 1..n : labeltable[m].en = ENTRY}) = k

\* print_object(), lines 464-480: the leading 'a' digits are skipped
skip_a(str) == Drop(str, strspn(str, {"a"}))

\* print_object() with the two operand digits of a Command word exchanged
print_word_mut(rec) ==
    IF rec.type = "RECORD_TYPE_COMMAND"
    THEN int_to_special_base4(rec.u0, NUM_2) \o int_to_special_base4(rec.u2, NUM_1)
         \o int_to_special_base4(rec.u1, NUM_1) \o int_to_special_base4(rec.u3, NUM_1)
    ELSE IF rec.type = "RECORD_TYPE_REGISTER"
    THEN int_to_special_base4(rec.u0, NUM_2) \o int_to_special_base4(rec.u1, NUM_2)
         \o int_to_special_base4(rec.u2, NUM_1)
    ELSE int_to_special_base4(rec.u0, NUM_4) \o int_to_special_base4(rec.u1, NUM_1)

\* print_object(), lines 486-523: the fields of one instruction word
print_word(rec) ==
    IF rec.type = "RECORD_TYPE_COMMAND"
    THEN int_to_special_base4(rec.u0, NUM_2) \o int_to_special_base4(rec.u1, NUM_1)
         \o int_to_special_base4(rec.u2, NUM_1) \o int_to_special_base4(rec.u3, NUM_1)
    ELSE IF rec.type = "RECORD_TYPE_REGISTER"
    THEN int_to_special_base4(rec.u0, NUM_2) \o int_to_special_base4(rec.u1, NUM_2)
         \o int_to_special_base4(rec.u2, NUM_1)
    ELSE int_to_special_base4(rec.u0, NUM_4) \o int_to_special_base4(rec.u1, NUM_1)

\* print_object() with the data lines numbered from MEMORY_START again
print_object_mut(instable, datatable, ic, dc) ==
    << <<" ">> \o skip_a(int_to_special_base4(ic, NUM_8)) \o <<" ">>
               \o skip_a(int_to_special_base4(dc, NUM_8)) >>
    \o [k \in 1..ic |-> int_to_special_base4(k - 1 + MEMORY_START, NUM_4) \o <<"\t">>
                         \o print_word(Slot(instable, k - 1))]
    \o [j \in 1..dc |-> int_to_special_base4(j - 1 + MEMORY_START, NUM_4) \o <<"\t">>
                         \o int_to_special_base4(datatable[j], NUM_5)]

\* print_object(), data.c: the header, then one line for each instruction
\* word and one for each data word, the address counted on from
\* MEMORY_START
print_object(instable, datatable, ic, dc) ==
    << <<" ">> \o skip_a(int_to_special_base4(ic, NUM_8)) \o <<" ">>
               \o skip_a(int_to_special_base4(dc, NUM_8)) >>
    \o [k \in 1..ic |-> int_to_special_base4(k - 1 + MEMORY_START, NUM_4) \o <<"\t">>
                         \o print_word(Slot(instable, k - 1))]
    \o [j \in 1..dc |-> int_to_special_base4(ic + j - 1 + MEMORY_START, NUM_4) \o <<"\t">>
                         \o int_to_special_base4(datatable[j], NUM_5)]

\* print_entry(), data.c: one line for each symbol that is an entry
print_entry(labeltable) ==
    [k \in 1..Cardinality({n \in 1..Len(labeltable) : labeltable[n].en = ENTRY}) |->
        labeltable[nth_entry(labeltable, k)].name \o <<"\t">>
        \o int_to_special_base4(labeltable[nth_entry(labeltable, k)].index, NUM_4)]

\* print_extern(), data.c: one line for each use of an external symbol
print_extern(extable) ==
    [k \in 1..Len(extable) |->
        extable[k].name \o <<"\t">> \o int_to_special_base4(extable[k].index, NUM_4)]

(***************************************************************************)
(* assembler.c and code.c: the run of the assembler over its files          *)
(***************************************************************************)
VARIABLES
    argv,         \* the source files named on the command line
    i,            \* main(): the file being processed, 1-based
    pc,           \* the position of the process
    command,      \* passes(): the lines of the expanded source
    macrostable,
    cl,           \* passes(): the 0-based index of the current line
    instable, ic, datatable, labeltable, errortable, extable,
    ic2,          \* passes(): the instruction counter of the second pass
    fs,           \* the artifacts on disk, <<file, extension>>
    stdout,       \* the diagnostics printed, <<file, line, message>>
    exitcode,     \* the exit status of the process, -1 while it runs
    num, num_digits, base4_str,  \* the encoder's argument and result
    object,       \* the lines of the object file written last
    entries,      \* the lines of the entry file written last
    externals     \* the lines of the extern file written last

vars == <<argv, i, pc, command, macrostable, cl, instable, ic, datatable, labeltable,
          errortable, extable, ic2, fs, stdout, exitcode, num, num_digits, base4_str,
          object, entries, externals>>

tables == <<instable, ic, datatable, labeltable, errortable, extable>>
encoder == <<num, num_digits, base4_str>>
written == <<object, entries, externals>>

dc == Len(datatable)
ec == Len(errortable)
lac == Len(labeltable)
exc == Len(extable)

Error(line, msg) == [line |-> line, error |-> msg]
Errors(line, msgs) == [k \in 1..Len(msgs) |-> Error(line, msgs[k])]

Init ==
    /\ argv \in CommandLines
    /\ i = 1
    /\ pc = "main"
    /\ command = <<>>
    /\ macrostable = <<>>
    /\ cl = 0
    /\ instable = <<>>
    /\ ic = 0
    /\ datatable = <<>>
    /\ labeltable = <<>>
    /\ errortable = <<>>
    /\ extable = <<>>
    /\ ic2 = 0
    /\ fs = {}
    /\ stdout = <<>>
    /\ exitcode = -1
    /\ num = 0
    /\ num_digits = 0
    /\ base4_str = <<>>
    /\ object = <<>>
    /\ entries = <<>>
    /\ externals = <<>>


\* main(), lines 42-99: the tables of the file are allocated, the macro
\* pass runs and passes() reads the expanded source; a missing or empty
\* expanded source makes passes() return EXIT and main() exit(1)
main_passes(pre, opened) ==
    /\ fs' = IF pre.written THEN fs \cup {<<i, "am">>} ELSE fs
    /\ macrostable' = pre.macros
    /\ command' = pre.am
    /\ errortable' = pre.errs \o (IF opened THEN <<>> ELSE <<Error(0, ": error opening file")>>)
    /\ IF opened /\ pre.am # <<>>
       THEN pc' = "first_pass" /\ exitcode' = exitcode
       ELSE pc' = "exit" /\ exitcode' = 1

main_file ==
    /\ pc = "main"
    /\ i <= Len(argv)
    /\ \E pre \in {pre_assemble(Source(argv[i]))} :
           main_passes(pre, <<i, "am">> \in fs \/ pre.written)
    /\ cl' = 0
    /\ ic2' = 0
    /\ instable' = <<>>
    /\ ic' = 0
    /\ datatable' = <<>>
    /\ labeltable' = <<>>
    /\ extable' = <<>>
    /\ UNCHANGED <<argv, i, stdout, encoder, written>>

\* passes(): a line that is blank or starts with ';' is not handed on
handed_on(line) == ~only_spaces_and_tabs(line) /\ At(line, 0) # ";"

\* passes(), line 339: what first_pass returned for the current line
first_pass_returned(r) ==
    IF r.ret = EXIT
    THEN /\ pc' = "exit"
         /\ exitcode' = 1
         /\ UNCHANGED <<cl, tables>>
    ELSE /\ cl' = cl + 1
         /\ instable' = instable \o r.ins
         /\ ic' = ic + Len(r.ins)
         /\ datatable' = datatable \o r.data
         /\ labeltable' = r.labeltable
         /\ errortable' = errortable \o Errors(cl, r.errs)
         /\ UNCHANGED <<pc, exitcode, extable>>

\* passes(), lines 333-342: first_pass on the current line
first_pass_line ==
    /\ pc = "first_pass"
    /\ cl < Len(command)
    /\ IF ~handed_on(command[cl + 1])
       THEN /\ cl' = cl + 1
            /\ UNCHANGED <<pc, exitcode, tables>>
       ELSE \E r \in {first_pass(command[cl + 1], labeltable, macrostable, ic, dc)} :
                first_pass_returned(r)
    /\ UNCHANGED <<argv, i, command, macrostable, ic2, fs, stdout, encoder, written>>

\* passes(), line 343: the relocation fix-up after the last line
index_update_step ==
    /\ pc = "first_pass"
    /\ cl = Len(command)
    /\ labeltable' = index_update(labeltable, ic)
    /\ pc' = "second_pass"
    /\ cl' = 0
    /\ ic2' = 0
    /\ UNCHANGED <<argv, i, command, macrostable, instable, ic, datatable, errortable,
                   extable, fs, stdout, exitcode, encoder, written>>

\* passes(), line 350: what second_pass returned for the current line
second_pass_returned(r) ==
    IF r.ret = EXIT
    THEN /\ pc' = "exit"
         /\ exitcode' = 1
         /\ UNCHANGED <<cl, ic2, tables>>
    ELSE /\ cl' = cl + 1
         /\ instable' = r.instable
         /\ extable' = r.extable
         /\ errortable' = errortable \o Errors(cl, r.errs)
         /\ ic2' = r.ic2
         /\ UNCHANGED <<pc, exitcode, ic, datatable, labeltable>>

\* passes(), lines 344-354: second_pass on the current line
second_pass_line ==
    /\ pc = "second_pass"
    /\ cl < Len(command)
    /\ IF ~handed_on(command[cl + 1])
       THEN /\ cl' = cl + 1
            /\ UNCHANGED <<pc, exitcode, ic2, tables>>
       ELSE \E r \in {second_pass(command[cl + 1], Pass2(instable, extable, <<>>, ic2),
                                  labeltable)} :
                second_pass_returned(r)
    /\ UNCHANGED <<argv, i, command, macrostable, fs, stdout, encoder, written>>

passes_return ==
    /\ pc = "second_pass"
    /\ cl = Len(command)
    /\ pc' = "emit"
    /\ UNCHANGED <<argv, i, command, macrostable, cl, tables, ic2, fs, stdout, exitcode,
                   encoder, written>>

\* a table grown by realloc leaves the callers with the old pointer
first_pass_undefined(r) ==
    \/ r.ub
    \/ ic + Len(r.ins) > MAX_SIZE_MEMORY
    \/ dc + Len(r.data) > MAX_SIZE_MEMORY
    \/ ec + Len(r.errs) > MAX_SIZE_MEMORY
    \/ Len(r.labeltable) > MAX_SIZE_MEMORY

\* an undefined operation in the current line (a NULL pointer handed to a
\* string function, a table used after realloc moved it) ends the process
undefined_behaviour ==
    /\ pc \in {"first_pass", "second_pass"}
    /\ cl < Len(command)
    /\ handed_on(command[cl + 1])
    /\ IF pc = "first_pass"
       THEN first_pass_undefined(first_pass(command[cl + 1], labeltable, macrostable, ic, dc))
       ELSE second_pass(command[cl + 1], Pass2(instable, extable, <<>>, ic2), labeltable).ub
    /\ pc' = "crash"
    /\ exitcode' = 139
    /\ UNCHANGED <<argv, i, command, macrostable, cl, tables, ic2, fs, stdout, encoder, written>>

have_entry(table) == IF \E k \in 1..Len(table) : table[k].en = ENTRY THEN 1 ELSE 0

\* main() without the test of the diagnostic count at line 108
emit_checked_mut(checked) ==
    /\ errortable' = checked
    /\ stdout' = stdout \o [k \in 1..Len(checked) |->
                             <<i, checked[k].line + 1, checked[k].error>>]
    /\ fs' = (fs \ {<<i, "am">>}) \cup {<<i, "ob">>}
    /\ object' = print_object(instable, datatable, ic, dc)
    /\ UNCHANGED <<entries, externals>>

\* main(), lines 102-151: the diagnostics are printed and the expanded
\* source removed, or the artifacts of the file are written
emit_checked(checked) ==
    /\ errortable' = checked
    /\ IF Len(checked) > 0
       THEN /\ stdout' = stdout \o [k \in 1..Len(checked) |->
                                      <<i, checked[k].line + 1, checked[k].error>>]
            /\ fs' = fs \ {<<i, "am">>}
            /\ UNCHANGED written
       ELSE /\ stdout' = stdout
            /\ fs' = fs \cup {<<i, "ob">>}
                        \cup (IF exc > 0 THEN {<<i, "ext">>} ELSE {})
                        \cup (IF have_entry(labeltable) = 1 THEN {<<i, "ent">>} ELSE {})
            /\ externals' = IF exc > 0 THEN print_extern(extable) ELSE externals
            /\ entries' = IF have_entry(labeltable) = 1
                           THEN print_entry(labeltable) ELSE entries
            /\ object' = print_object(instable, datatable, ic, dc)

\* the size check with the bound itself refused
memory_over_mut(words) == words >= MEMORY_CAP

\* main(), line 102: the image is larger than the memory
memory_over(words) == words > MEMORY_CAP

\* main(), lines 102-152: the size check, then the output of the file
emit_file ==
    /\ pc = "emit"
    /\ emit_checked(IF memory_over(ic + dc)
                    THEN Append(errortable, Error(0, ": the memory is over"))
                    ELSE errortable)
    /\ i' = i + 1
    /\ pc' = "main"
    /\ UNCHANGED <<argv, command, macrostable, cl, instable, ic, datatable, labeltable,
                   extable, ic2, exitcode, encoder>>

\* main(), line 155
main_return ==
    /\ pc = "main"
    /\ i > Len(argv)
    /\ pc' = "done"
    /\ exitcode' = 0
    /\ UNCHANGED <<argv, i, command, macrostable, cl, tables, ic2, fs, stdout, encoder, written>>

Next ==
    \/ main_file
    \/ first_pass_line
    \/ index_update_step
    \/ second_pass_line
    \/ passes_return
    \/ undefined_behaviour
    \/ emit_file
    \/ main_return

Spec == Init /\ [][Next]_vars

(***************************************************************************)
(* The emission contract of the driver                                      *)
(***************************************************************************)
\* the artifacts of file f that the run has left on disk
Artifacts(f) == {<<f, "ob">>, <<f, "ent">>, <<f, "ext">>} \cap fs

\* the files whose diagnostics were printed
Printed == {stdout[k][1] : k \in 1..Len(stdout)}

\* C1: a file that ends with a diagnostic count above zero, whichever of
\* the macro pass, the first pass, the second pass or the size check
\* recorded it, has none of its .ob, .ent and .ext artifacts on disk; the
\* run starts in a directory that holds no artifact of its input files
C1_NoEmissionOnError ==
    /\ \A f \in Printed : Artifacts(f) = {}
    /\ (ec > 0 /\ pc \in {"main", "done"} /\ i > 1) => Artifacts(i - 1) = {}
    /\ (ec > 0 /\ pc \in {"exit", "crash"}) => Artifacts(i) = {}

\* a file went through both passes, ended with diagnostics, and a file
\* assembled before it has its object file
C1_Witness ==
    /\ pc = "main"
    /\ i > 2
    /\ ec > 0
    /\ (i - 1) \in Printed
    /\ Artifacts(i - 2) # {}

\* C2: a file in which a pass recorded a diagnostic does not end the run:
\* when the process has ended, its diagnostics are printed, every file of
\* the command line was processed and the exit status is 0
C2_DiagnosticNeverAborts ==
    (exitcode # -1 /\ pc # "crash" /\ ec > 0) =>
        /\ exitcode = 0
        /\ i > Len(argv)
        /\ (i - 1) \in Printed

(***************************************************************************)
(* The operands of a source line as the language defines them               *)
(***************************************************************************)
\* the line without its label
Statement(line, first) ==
    IF first # NULL /\ first[Len(first)] = ":" THEN string_without_first_word(line, WS)
    ELSE line

\* the mnemonic of a line, and the text that follows the mnemonic
Mnemonic(line) == strtok(Statement(line, strtok(line, WS, 1)), WS, 1)
OperandField(line) == string_without_first_word(Statement(line, strtok(line, WS, 1)), WS)

\* the operand texts: the field split at its comma, white space stripped
OperandsAt(field, comma) ==
    IF comma = Len(field) THEN <<trim_space(field)>>
    ELSE <<trim_space(Take(field, comma)), trim_space(Drop(field, comma + 1))>>

Operands(field) == IF field = NULL THEN <<>> ELSE OperandsAt(field, strcspn(field, {","}))

\* the label an operand names: the text itself, or the text before '['
LabelOf(operand) == Take(operand, strcspn(operand, {"["}))

InTable(table, name) == \E k \in 1..Len(table) : table[k].name = name

\* an operand that names no label: a register or an immediate value
Labelless(operand) ==
    \/ At(operand, 0) = "#"
    \/ Len(operand) = 2 /\ operand[1] = "r" /\ operand[2] \in OctalSet

\* a line is an instruction whose Direct and Matrix operands all name
\* symbols of the table
NamesSymbols(line, table) ==
    /\ Mnemonic(line) \in OpcodeNames
    /\ \A k \in 1..Len(Operands(OperandField(line))) :
           \/ Labelless(Operands(OperandField(line))[k])
           \/ InTable(table, LabelOf(Operands(OperandField(line))[k]))

NotDefined == ": error! Label name is not defined"

\* C3: the second pass records no 'label not defined' diagnostic for an
\* instruction whose Direct and Matrix operands all name symbols of the
\* table, in source or destination position and whatever white space
\* surrounds the comma
C3_KnownLabelsResolved ==
    \A k \in 1..ec :
        errortable[k].error = NotDefined =>
            ~NamesSymbols(command[errortable[k].line + 1], labeltable)

\* the instruction word an ExternalUse record points at
UsedWord(use) == Slot(instable, use.index - MEMORY_START)

\* C4: after the second pass every ExternalUse record holds the address of
\* an instruction word, 100 <= address < 100 + IC, that word is an Address
\* word whose ARE is External, and no two records hold the same address
C4_ExternalUseAddresses ==
    pc = "emit" =>
        /\ \A k \in 1..exc :
               /\ MEMORY_START <= extable[k].index
               /\ extable[k].index < MEMORY_START + ic
               /\ UsedWord(extable[k]).type = "RECORD_TYPE_ADDRESS"
               /\ UsedWord(extable[k]).u1 = EXTERNAL
        /\ \A j \in 1..exc : \A k \in 1..exc :
               j # k => extable[j].index # extable[k].index

\* the line carries the label that defines the symbol
Defines(line, name) == strtok(line, WS, 1) = name \o <<":">>

\* the range the fix-up puts a symbol in, by the statement its label is on
InRange(label, mnemonic) ==
    IF mnemonic \in OpcodeNames
    THEN MEMORY_START <= label.index /\ label.index < MEMORY_START + ic
    ELSE IF mnemonic \in Directives
    THEN MEMORY_START + ic <= label.index /\ label.index < MEMORY_START + ic + dc
    ELSE TRUE

\* C5: when the first pass has accepted the program without a diagnostic,
\* index_update leaves every symbol defined by an instruction label in
\* [100, 100 + IC) and every symbol defined by a .data, .string or .mat
\* label in [100 + IC, 100 + IC + DC)
C5_SymbolRanges ==
    (pc = "second_pass" /\ cl = 0 /\ ec = 0) =>
        \A k \in 1..Len(command) : \A j \in 1..lac :
            Defines(command[k], labeltable[j].name) =>
                InRange(labeltable[j], Mnemonic(command[k]))

(***************************************************************************)
(* The instruction image                                                    *)
(***************************************************************************)
\* the addressing mode of an operand text as the language defines it
Mode(operand) ==
    IF At(operand, 0) = "#" THEN IMMEDIATE
    ELSE IF Len(operand) = 2 /\ operand[1] = "r" /\ operand[2] \in OctalSet THEN REGISTER
    ELSE IF \E k \in 1..Len(operand) : operand[k] = "[" THEN MATRIX
    ELSE DIRECT

\* the words an operand of a mode takes
w(mode) == IF mode = MATRIX THEN 2 ELSE 1

\* the words of an instruction with the operand texts ops
WordsOf(ops) ==
    IF Len(ops) = 0 THEN 1
    ELSE IF Len(ops) = 1 THEN 1 + w(Mode(ops[1]))
    ELSE IF Mode(ops[1]) = REGISTER /\ Mode(ops[2]) = REGISTER THEN 2
    ELSE 1 + w(Mode(ops[1])) + w(Mode(ops[2]))

\* the first pass takes an instruction line and records no diagnostic
AcceptsInstruction ==
    /\ pc = "first_pass"
    /\ pc' = "first_pass"
    /\ cl' = cl + 1
    /\ ec' = ec
    /\ Mnemonic(command[cl + 1]) \in OpcodeNames

\* C6: an instruction line accepted without a diagnostic grows IC by
\* 1 + w(src) + w(dst), w being 2 for Matrix, 1 for the other modes and 0
\* for an absent operand, two Register operands sharing one word
C6_WordsPerInstruction ==
    [][AcceptsInstruction => ic' = ic + WordsOf(Operands(OperandField(command[cl + 1])))]_vars

\* Table 1 for lea: the source Direct or Matrix, the destination not Immediate
LegalLea(ops) ==
    /\ Len(ops) = 2
    /\ Mode(ops[1]) \in {DIRECT, MATRIX}
    /\ Mode(ops[2]) \in {DIRECT, MATRIX, REGISTER}

\* C7: a lea line is accepted only with a Direct or Matrix source and a
\* Direct, Matrix or Register destination; any other lea line records a
\* diagnostic
C7_LeaModes ==
    [][(AcceptsInstruction /\ Mnemonic(command[cl + 1]) = lea)
          => LegalLea(Operands(OperandField(command[cl + 1])))]_vars

\* Table 1 for the opcodes other than lea
Legal(mnemonic, ops) ==
    IF mnemonic \in {Chars("mov"), Chars("add"), Chars("sub")}
    THEN Len(ops) = 2 /\ Mode(ops[2]) # IMMEDIATE
    ELSE IF mnemonic = cmp THEN Len(ops) = 2
    ELSE IF mnemonic = prn THEN Len(ops) = 1
    ELSE IF mnemonic \in {Chars("rts"), Chars("stop")} THEN Len(ops) = 0
    ELSE Len(ops) = 1 /\ Mode(ops[1]) # IMMEDIATE

\* the first pass takes an instruction line other than lea
PassesInstruction ==
    /\ pc = "first_pass"
    /\ pc' = "first_pass"
    /\ cl' = cl + 1
    /\ Mnemonic(command[cl + 1]) \in OpcodeNames \ {lea}

\* an unlabelled line whose operands are well-formed operand texts
PlainLine(line) ==
    /\ strtok(line, WS, 1) = Mnemonic(line)
    /\ \A k \in 1..Len(Operands(OperandField(line))) :
           Operands(OperandField(line))[k] \in {Chars(t) : t \in OperandTexts}

\* C8: for the opcodes other than lea the first pass accepts a line exactly
\* when the operand count and the addressing modes match Table 1 (a line
\* it accepts matches the table, and a plain line that matches the table
\* is accepted), and a line it rejects appends no Command word
C8_TableOne ==
    [][PassesInstruction =>
          /\ ec' = ec => Legal(Mnemonic(command[cl + 1]),
                               Operands(OperandField(command[cl + 1])))
          /\ (PlainLine(command[cl + 1])
                 /\ Legal(Mnemonic(command[cl + 1]),
                          Operands(OperandField(command[cl + 1])))) => ec' = ec
          /\ ec' # ec => ic' = ic]_vars

\* the diagnostics of the file that the passes recorded
PassDiagnostics == {k \in 1..ec : errortable[k].error # ": the memory is over"}

\* C9: when both passes have completed with IC + DC above 156 words a
\* diagnostic is recorded and the file gets no artifact, and a file of
\* exactly 156 words without a diagnostic gets its object file
C9_MemoryCap ==
    (pc = "main" /\ i > 1) =>
        /\ ic + dc > 156 => (ec > 0 /\ (i - 1) \in Printed /\ Artifacts(i - 1) = {})
        /\ (ic + dc = 156 /\ PassDiagnostics = {}) => (ec = 0 /\ <<i - 1, "ob">> \in fs)

\* a file of more than 156 words whose only diagnostic is that of the size
\* check has been processed
C9_Witness ==
    /\ pc = "main"
    /\ i > 1
    /\ ic + dc > 156
    /\ errortable = <<Error(0, ": the memory is over")>>

(***************************************************************************)
(* second_pass.c: the encoder run on the values of each field width         *)
(***************************************************************************)
\* the widths of the fields of the object, entry and extern files
Widths == {NUM_1, NUM_2, NUM_4, NUM_5, NUM_8}

InitEnc ==
    /\ num_digits \in Widths
    /\ num \in (0 - (4 ^ num_digits) \div 2 - EncMargin)..(4 ^ num_digits - 1 + EncMargin)
    /\ base4_str = <<>>
    /\ pc = "encode"
    /\ argv = <<>>
    /\ i = 1
    /\ command = <<>>
    /\ macrostable = <<>>
    /\ cl = 0
    /\ instable = <<>>
    /\ ic = 0
    /\ datatable = <<>>
    /\ labeltable = <<>>
    /\ errortable = <<>>
    /\ extable = <<>>
    /\ ic2 = 0
    /\ fs = {}
    /\ stdout = <<>>
    /\ exitcode = -1
    /\ object = <<>>
    /\ entries = <<>>
    /\ externals = <<>>

\* a call of int_to_special_base4(num, num_digits)
Encode ==
    /\ pc = "encode"
    /\ base4_str' = int_to_special_base4(num, num_digits)
    /\ pc' = "encoded"
    /\ UNCHANGED <<argv, i, command, macrostable, cl, tables, ic2, fs, stdout, exitcode,
                   num, num_digits, written>>

NextEnc == Encode

SpecEnc == InitEnc /\ [][NextEnc]_vars

\* the string read as a base-4 number, a..d being the digits 0..3
RECURSIVE Decode(_)
Decode(str) ==
    IF str = <<>> THEN 0
    ELSE 4 * Decode(Take(str, Len(str) - 1)) + char_to_digit(str[Len(str)])

\* C10: for the widths 1, 2, 4, 5 and 8 the encoder returns exactly w
\* characters of a..d, which read as base-4 digits give n when
\* 0 <= n < 4^w and n + 4^w when -(4^w)/2 <= n < 0
C10_EncoderRoundTrip ==
    (pc = "encoded" /\ 0 - (4 ^ num_digits) \div 2 <= num /\ num < 4 ^ num_digits) =>
        /\ Len(base4_str) = num_digits
        /\ \A k \in 1..Len(base4_str) : base4_str[k] \in {"a", "b", "c", "d"}
        /\ Decode(base4_str) = IF num < 0 THEN num + 4 ^ num_digits ELSE num

\* the most negative value of the widest field has been encoded
C10_Witness ==
    /\ pc = "encoded"
    /\ num_digits = NUM_8
    /\ num = 0 - (4 ^ NUM_8) \div 2
    /\ Decode(base4_str) = (4 ^ NUM_8) \div 2

(***************************************************************************)
(* The object file                                                          *)
(***************************************************************************)
\* the file before the current one has been assembled and its object
\* file written; the tables are still those of that file
ObjectWritten == pc = "main" /\ i > 1 /\ <<i - 1, "ob">> \in fs

\* the fields of a word of the image with their widths, in file order
Fields(rec) ==
    IF rec.type = "RECORD_TYPE_COMMAND"
    THEN <<<<rec.u0, NUM_2>>, <<rec.u1, NUM_1>>, <<rec.u2, NUM_1>>, <<rec.u3, NUM_1>>>>
    ELSE IF rec.type = "RECORD_TYPE_REGISTER"
    THEN <<<<rec.u0, NUM_2>>, <<rec.u1, NUM_2>>, <<rec.u2, NUM_1>>>>
    ELSE <<<<rec.u0, NUM_4>>, <<rec.u1, NUM_1>>>>

\* the 10-bit value of the fields, the first one the most significant
RECURSIVE Bits(_)
Bits(fields) ==
    IF fields = <<>> THEN 0
    ELSE (Bits(Take(fields, Len(fields) - 1)) * (4 ^ fields[Len(fields)][2]))
         + (fields[Len(fields)][1] % (4 ^ fields[Len(fields)][2]))

\* the part of a line of the object file after the address and the tab
Payload(line) == Drop(line, NUM_4 + 1)

\* C11: the object file has 1 + IC + DC lines; after the header, line k
\* carries the address 100 + k, the first IC lines carry the words of
\* the instruction image in order and the next DC lines the data words in
\* order, each as its value modulo 1024 in 5 base-4 digits
C11_ObjectLayout ==
    ObjectWritten =>
        /\ Len(object) = 1 + ic + dc
        /\ \A k \in 0..(ic + dc - 1) :
               /\ Decode(Take(object[k + 2], NUM_4)) = MEMORY_START + k
               /\ Len(Payload(object[k + 2])) = NUM_5
               /\ object[k + 2][NUM_5] = "\t"
        /\ \A k \in 1..ic : Decode(Payload(object[k + 1])) = Bits(Fields(instable[k]))
        /\ \A j \in 1..dc : Decode(Payload(object[ic + j + 1])) = datatable[j] % 1024

\* an object file with instruction words and a negative data word
C11_Witness ==
    /\ ObjectWritten
    /\ ic > 1
    /\ \E j \in 1..dc : datatable[j] < 0 /\ Decode(Payload(object[ic + j + 1])) = datatable[j] + 1024

(***************************************************************************)
(* The expansion of macro calls                                             *)
(***************************************************************************)
\* the macro pass of the current file has written the expanded source
Expanded == pc = "first_pass" /\ cl = 0

\* the label in front of a statement with its ':', or the empty text
LabelPrefix(first) ==
    IF first # NULL /\ first[Len(first)] = ":" THEN first \o <<"\t">> ELSE <<>>

\* line n of the source is outside the macro definitions
Outside(source, n) ==
    Cardinality({m \in 1..(n - 1) : Mnemonic(source[m]) = mcro})
        = Cardinality({m \in 1..(n - 1) : Mnemonic(source[m]) = mcroend})

\* the source lines that invoke a defined macro
MacroCalls(source, macros) ==
    {n \in 1..Len(source) :
        /\ Mnemonic(source[n]) # NULL
        /\ find_macro_definition(macros, Mnemonic(source[n])) # 0
        /\ Outside(source, n)}

\* the lines of out from line k on are the body, the first after the prefix
BodyAt(out, k, prefix, body) ==
    \A b \in 1..Len(body) :
        /\ k + b - 1 <= Len(out)
        /\ trim_space(out[k + b - 1]) = (IF b = 1 THEN prefix ELSE <<>>) \o body[b]

\* C12: a line whose first token after an optional label names a defined
\* macro is replaced by the body lines of the macro in order, the label of
\* the invoking line in front of the first of them
C12_MacroCallExpanded ==
    Expanded =>
        \A n \in MacroCalls(Source(argv[i]), macrostable) :
            \E k \in 1..Len(command) :
                BodyAt(command, k, LabelPrefix(strtok(Source(argv[i])[n], WS, 1)),
                       macrostable[find_macro_definition(macrostable,
                                       Mnemonic(Source(argv[i])[n]))].lines)

(***************************************************************************)
(* The entry file                                                           *)
(***************************************************************************)
\* the file before the current one has been assembled and its entry file
\* written; the tables and the expanded source are still those of that file
EntryWritten == pc = "main" /\ i > 1 /\ <<i - 1, "ent">> \in fs

\* the words the first pass appends to the two images for one line
Appended(line) ==
    IF handed_on(line)
    THEN <<Len(first_pass(line, <<>>, macrostable, 0, 0).ins),
           Len(first_pass(line, <<>>, macrostable, 0, 0).data)>>
    ELSE <<0, 0>>

\* IC and DC of the first pass at line n of the expanded source
RECURSIVE CountersAt(_, _)
CountersAt(lines, n) ==
    IF n <= 1 THEN <<0, 0>>
    ELSE <<CountersAt(lines, n - 1)[1] + Appended(lines[n - 1])[1],
           CountersAt(lines, n - 1)[2] + Appended(lines[n - 1])[2]>>

\* the address the fix-up gives the label defined on line n
DefinitionAddress(lines, n) ==
    IF Mnemonic(lines[n]) \in OpcodeNames
    THEN MEMORY_START + CountersAt(lines, n)[1]
    ELSE MEMORY_START + ic + CountersAt(lines, n)[2]

\* line of the entry file: the name, a tab, the address in 4 digits
EntryLine(line, name, address) ==
    /\ Len(line) = Len(name) + 1 + NUM_4
    /\ Take(line, Len(name)) = name
    /\ line[Len(name) + 1] = "\t"
    /\ Decode(Drop(line, Len(name) + 1)) = address

\* C13: the entry file has one line for each symbol that is an entry, and
\* the address on the line is the address after the fix-up of the label
\* definition of that name, 100 + its IC index for an instruction label
\* and 100 + IC + its DC index for a data label, with the .entry line
\* before or after the definition
C13_EntryAddresses ==
    EntryWritten =>
        /\ Len(entries) = Cardinality({labeltable[k].name : k \in
                              {n \in 1..Len(labeltable) : labeltable[n].en = ENTRY}})
        /\ \A k \in 1..Len(labeltable) :
               labeltable[k].en = ENTRY =>
                   \E e \in 1..Len(entries) :
                       \A n \in 1..Len(command) :
                           Defines(command[n], labeltable[k].name) =>
                               EntryLine(entries[e], labeltable[k].name,
                                         DefinitionAddress(command, n))

(***************************************************************************)
(* Fatal failures                                                           *)
(***************************************************************************)
\* the expanded source of the file the driver is about to process cannot
\* be read by passes(): the macro pass does not write it, or writes no line
Unreadable(pre) == ~(<<i, "am">> \in fs \/ pre.written) \/ pre.am = <<>>

\* the driver is at a file whose expanded source cannot be read
FatalFailure == pc = "main" /\ i <= Len(argv) /\ Unreadable(pre_assemble(Source(argv[i])))

\* C14: a fatal failure while one file is processed, such as an expanded
\* source that cannot be opened, aborts that file only: its .am file and
\* its artifacts are removed and the driver goes on to the next file
C14_FatalAbortsOneFile ==
    [][FatalFailure =>
          /\ pc' = "main"
          /\ i' = i + 1
          /\ \A e \in {"am", "ob", "ent", "ext"} : <<i, e>> \notin fs']_vars

(***************************************************************************)
(* The counter of the second pass                                           *)
(***************************************************************************)
\* the second pass takes an instruction line for which the first pass
\* recorded no diagnostic
SecondPassOnInstruction ==
    /\ pc = "second_pass"
    /\ pc' = "second_pass"
    /\ cl' = cl + 1
    /\ Mnemonic(command[cl + 1]) \in OpcodeNames
    /\ \A k \in 1..ec : errortable[k].line # cl

\* C15: for every instruction line the first pass accepted, the second
\* pass advances IC2 by the number of words the first pass appended for
\* the line, by 1 for a line without operands such as rts and stop, so
\* that IC2 follows the IC of the first pass line by line
C15_CounterMirrorsPassOne ==
    [][SecondPassOnInstruction => ic2' = ic2 + Appended(command[cl + 1])[1]]_vars


\* the second pass is at a directive, .entry or .extern line for which the
\* first pass recorded no diagnostic
SecondPassOnDirective ==
    /\ pc = "second_pass"
    /\ cl < Len(command)
    /\ handed_on(command[cl + 1])
    /\ Mnemonic(command[cl + 1]) \in
           {Chars(".data"), Chars(".string"), Chars(".mat"), Chars(".entry"), Chars(".extern")}
    /\ \A k \in 1..ec : errortable[k].line # cl

\* C16: in the second pass a .data, .string or .mat line, with or without
\* a label, and every .entry and .extern line records no diagnostic and
\* leaves the instruction image, IC2 and the list of external uses as
\* they are
C16_DirectivesInert ==
    [][SecondPassOnDirective =>
          /\ errortable' = errortable
          /\ instable' = instable
          /\ ic2' = ic2
          /\ extable' = extable]_vars

(***************************************************************************)
(* The .mat directive                                                       *)
(***************************************************************************)
\* the numbers of a .mat line: the rows, the columns, then the initializers
MatNumbers(line) ==
    IF OperandField(line) = NULL THEN <<>>
    ELSE strtok_all(OperandField(line), mat_delimiters)

Rows(line) == atoi(MatNumbers(line)[1])
Cols(line) == atoi(MatNumbers(line)[2])
Initializers(line) == [k \in 1..(Len(MatNumbers(line)) - 2) |-> atoi(MatNumbers(line)[k + 2])]

\* the first pass takes a .mat line that gives both dimensions
MatLine ==
    /\ pc = "first_pass"
    /\ pc' = "first_pass"
    /\ cl' = cl + 1
    /\ Mnemonic(command[cl + 1]) = Chars(".mat")
    /\ Len(MatNumbers(command[cl + 1])) >= 2

\* C17: an accepted .mat [rows][cols] with k initializers, k from 1 to
\* rows*cols, grows DC by rows*cols: the k values in order, then
\* rows*cols - k zero words
C17_MatFillsCells ==
    [][(/\ MatLine
        /\ ec' = ec
        /\ Len(Initializers(command[cl + 1])) >= 1
        /\ Len(Initializers(command[cl + 1])) <= Rows(command[cl + 1]) * Cols(command[cl + 1]))
       => datatable' = datatable \o Initializers(command[cl + 1])
                         \o [k \in 1..(Rows(command[cl + 1]) * Cols(command[cl + 1])
                                       - Len(Initializers(command[cl + 1]))) |-> 0]]_vars

\* C18: a .mat [rows][cols] with more than rows*cols initializers records
\* a diagnostic
C18_MatTooManyValues ==
    [][(/\ MatLine
        /\ Len(Initializers(command[cl + 1])) > Rows(command[cl + 1]) * Cols(command[cl + 1]))
       => ec' > ec]_vars

\* C19: a .mat whose rows or cols is 0 records a diagnostic, and a .mat
\* accepted without a diagnostic appends at least one data word
C19_MatDimensionsPositive ==
    [][MatLine =>
          /\ (Rows(command[cl + 1]) = 0 \/ Cols(command[cl + 1]) = 0) => ec' > ec
          /\ ec' = ec => Len(datatable') > Len(datatable)]_vars

(***************************************************************************)
(* The names of the symbol table                                            *)
(***************************************************************************)
\* C20: in every state of the first pass, after any label definitions and
\* .entry and .extern lines, accepted or diagnosed, no two entries of the
\* symbol table have the same name
C20_UniqueNames ==
    pc = "first_pass" =>
        \A j \in 1..Len(labeltable) : \A k \in 1..Len(labeltable) :
            j # k => labeltable[j].name # labeltable[k].name


\* the symbol a line declares or defines: the name after .entry or .extern,
\* or the label in front of the statement
Introduces(line, name) ==
    \/ Defines(line, name)
    \/ /\ strtok(line, WS, 1) \in {Chars(".entry"), Chars(".extern")}
       /\ strtok(line, WS, 2) = name

\* three lines have introduced the same name, one of them diagnosed, and
\* the table holds the name once
C20_Witness ==
    /\ pc = "first_pass"
    /\ cl = 3
    /\ ec > 0
    /\ Len(labeltable) = 1
    /\ \A n \in 1..3 : Introduces(command[n], labeltable[1].name)

(***************************************************************************)
(* The symbols that are external or entry placeholders                      *)
(***************************************************************************)
\* C21: in every reachable state, also after the relocation fix-up, every
\* symbol whose attribute is Extern has address 0
C21_ExternAddressZero ==
    \A k \in 1..Len(labeltable) : labeltable[k].en = EXTERN => labeltable[k].index = 0


\* line n of the expanded source, already taken by the first pass without a
\* diagnostic, defines the label name
DefinedAt(n, name) ==
    /\ n <= cl
    /\ Defines(command[n], name)
    /\ \A k \in 1..ec : errortable[k].line # n - 1

\* the first pass takes a line whose label was defined by an earlier line
Redefines(k) ==
    /\ pc = "first_pass"
    /\ pc' = "first_pass"
    /\ cl' = cl + 1
    /\ Defines(command[cl + 1], labeltable[k].name)
    /\ \E n \in 1..Len(command) : DefinedAt(n, labeltable[k].name)

\* C22: a label definition whose name an earlier label definition of the
\* file has defined records a diagnostic and leaves the kind and the
\* address of the earlier symbol as they are; only an Entry placeholder
\* that has had no definition is adopted
C22_NoRedefinition ==
    [][\A k \in 1..Len(labeltable) :
          Redefines(k) =>
              /\ ec' > ec
              /\ labeltable'[k].type = labeltable[k].type
              /\ labeltable'[k].index = labeltable[k].index]_vars


\* symbol k is an Entry placeholder: declared by .entry, defined by no label
Placeholder(k) ==
    /\ labeltable[k].en = ENTRY
    /\ \A n \in 1..Len(command) : ~Defines(command[n], labeltable[k].name)

\* an instruction line of the expanded source has the name as an operand
Referenced(name) ==
    \E n \in 1..Len(command) :
        /\ Mnemonic(command[n]) \in OpcodeNames
        /\ \E o \in 1..Len(Operands(OperandField(command[n]))) :
               LabelOf(Operands(OperandField(command[n]))[o]) = name

\* C23: a symbol that is only an Entry placeholder keeps its address
\* through the relocation fix-up, and an instruction operand that names it
\* records a diagnostic in the second pass
C23_PlaceholderUnresolved ==
    \A k \in 1..Len(labeltable) :
        Placeholder(k) =>
            /\ labeltable[k].index = 0
            /\ (pc = "emit" /\ Referenced(labeltable[k].name)) => ec > 0

(***************************************************************************)
(* The addressing classifier                                                *)
(***************************************************************************)
\* C24: for the operand texts of every instruction line a pass has taken,
\* the classifier returns Register only for a text that is r0..r7 with nothing
\* after it; a text that goes on after r and a digit 0-7, such as the
\* label r2d2, is Direct, or Matrix when it has brackets
C24_RegisterExact ==
    (pc \in {"first_pass", "second_pass"} /\ cl > 0
        /\ Mnemonic(command[cl]) \in OpcodeNames) =>
        \A o \in 1..Len(Operands(OperandField(command[cl]))) :
            Operands(OperandField(command[cl]))[o] # <<>> =>
                which_type_operand(Operands(OperandField(command[cl]))[o])
                    = Mode(Operands(OperandField(command[cl]))[o])

(***************************************************************************)
(* The collection of macro definitions                                      *)
(***************************************************************************)
\* the macro pass of the current file is done
Collected == pc \in {"first_pass", "exit"} /\ cl = 0

\* the first line of the source that opens a macro definition, or 0; the
\* collector is outside a definition before it
FirstMcro(source) ==
    IF \E n \in 1..Len(source) : Mnemonic(source[n]) = mcro
    THEN CHOOSE n \in 1..Len(source) :
             /\ Mnemonic(source[n]) = mcro
             /\ \A m \in 1..(n - 1) : Mnemonic(source[m]) # mcro
    ELSE 0

\* the name on a mcro line
McroName(line) == strtok(OperandField(line), WS, 1)

\* the first mcroend line after line a, or 0
McroEnd(source, a) ==
    IF \E n \in (a + 1)..Len(source) : Mnemonic(source[n]) = mcroend
    THEN CHOOSE n \in (a + 1)..Len(source) :
             /\ Mnemonic(source[n]) = mcroend
             /\ \A m \in (a + 1)..(n - 1) : Mnemonic(source[m]) # mcroend
    ELSE 0

\* the lines from n up to b that are no comment and not blank, trimmed
RECURSIVE Body(_, _, _)
Body(source, n, b) ==
    IF n >= b THEN <<>>
    ELSE (IF skipped_line(source[n]) THEN <<>>
          ELSE <<trim_whitespace_and_comments(source[n])>>) \o Body(source, n + 1, b)

\* the definition opened at line a is in the table with the lines up to its
\* mcroend, or the end of the file inside it is diagnosed
Registered(source, a, b) ==
    IF b = 0
    THEN \E k \in 1..ec : errortable[k].error = ": Unclosed macro definition (missing endmcro)."
    ELSE \E k \in 1..Len(macrostable) :
             /\ macrostable[k].name = McroName(source[a])
             /\ macrostable[k].lines = Body(source, a + 1, b)

\* the name on the mcro line at a is one the collector takes
AcceptedName(source, a) ==
    /\ a # 0
    /\ OperandField(source[a]) # NULL
    /\ is_valid_macro_name(McroName(source[a])) = 1
    /\ is_reserved_word(McroName(source[a])) = 0

\* C25: after an accepted mcro NAME the collector is inside the body of
\* NAME until mcroend; every line in between that is no comment, whatever
\* its first token, is appended to the body in order, mcroend registers
\* NAME with exactly these lines, and the end of the file inside the body
\* records a diagnostic
C25_MacroCollection ==
    (Collected /\ AcceptedName(Source(argv[i]), FirstMcro(Source(argv[i])))) =>
        Registered(Source(argv[i]), FirstMcro(Source(argv[i])),
                   McroEnd(Source(argv[i]), FirstMcro(Source(argv[i]))))

(***************************************************************************)
(* The words of the object file                                             *)
(***************************************************************************)
\* the line of the object file with the word of operand o of the
\* instruction on line n of the expanded source
OperandLine(n, o) ==
    object[CountersAt(command, n)[1] + 2
           + (IF o = 1 THEN 1 ELSE 1 + w(Mode(Operands(OperandField(command[n]))[1])))]

\* the literal of an Immediate operand text
Literal(operand) == strtol(Tail(operand)).val

\* the Immediate operands of the instruction lines: <<line, operand>>
Immediates ==
    {<<n, o>> \in (1..Len(command)) \X {1, 2} :
        /\ Mnemonic(command[n]) \in OpcodeNames
        /\ o <= Len(Operands(OperandField(command[n])))
        /\ At(Operands(OperandField(command[n]))[o], 0) = "#"}

\* C26: in an object file written without a diagnostic the Address word of
\* an Immediate operand #v carries the literal: its 4 digits read in two's
\* complement give v, and its ARE is Absolute; a literal the 8 bits cannot
\* hold is not accepted
C26_ImmediateLiteral ==
    ObjectWritten =>
        \A p \in Immediates :
            /\ Literal(Operands(OperandField(command[p[1]]))[p[2]]) \in (0 - 128)..127
            /\ Decode(Take(Payload(OperandLine(p[1], p[2])), NUM_4))
                   = Literal(Operands(OperandField(command[p[1]]))[p[2]]) % 256
            /\ Payload(OperandLine(p[1], p[2]))[NUM_5] = "a"


\* the digit of an addressing mode in a Command word; an absent operand is
\* stored as 0
ModeDigit(mode) ==
    CASE mode = IMMEDIATE -> "a"
      [] mode = DIRECT -> "b"
      [] mode = MATRIX -> "c"
      [] mode = REGISTER -> "d"
      [] OTHER -> "?"

\* the Command words of the image that were written to the object file
CommandWords == {k \in 1..ic : Slot(instable, k - 1).type = "RECORD_TYPE_COMMAND"}

PassOneWords(n) ==
    IF handed_on(command[n]) THEN first_pass(command[n], <<>>, macrostable, 0, 0).ins
    ELSE <<>>

\* the word is the placeholder the first pass leaves for a label
IsPlaceholder(rec) ==
    rec.type = "RECORD_TYPE_ADDRESS" /\ rec.u0 = NO_KNEWN /\ rec.u1 = NO_KNEWN

\* C28: when both passes end without a diagnostic, no word of the
\* instruction image is still the placeholder of the first pass, every
\* Address word has the ARE Absolute, External or Relocatable, and every
\* Command, Register and Immediate word of the first pass is as the first
\* pass left it
C28_NoPlaceholderLeft ==
    (pc = "emit" /\ ec = 0) =>
        /\ \A k \in 1..ic :
               /\ ~IsPlaceholder(instable[k])
               /\ instable[k].type = "RECORD_TYPE_ADDRESS" =>
                      instable[k].u1 \in {ABSOLUTE, EXTERNAL, RELOCATABLE}
        /\ \A n \in 1..Len(command) : \A j \in 1..Len(PassOneWords(n)) :
               ~IsPlaceholder(PassOneWords(n)[j]) =>
                   instable[CountersAt(command, n)[1] + j] = PassOneWords(n)[j]


\* the first pass takes a .extern line for the name of symbol k, which an
\* earlier label definition of the file has defined
ExternOfLocal(k) ==
    /\ pc = "first_pass"
    /\ pc' = "first_pass"
    /\ cl' = cl + 1
    /\ strtok(command[cl + 1], WS, 1) = Chars(".extern")
    /\ strtok(command[cl + 1], WS, 2) = labeltable[k].name
    /\ \E n \in 1..Len(command) : DefinedAt(n, labeltable[k].name)

\* C29: a .extern line for a name that has a local label definition
\* records a diagnostic and leaves the attribute, the kind and the address
\* of the symbol as they are; a locally defined symbol never becomes Extern
C29_ExternOfLocalRefused ==
    [][\A k \in 1..Len(labeltable) :
          ExternOfLocal(k) => (ec' > ec /\ labeltable'[k] = labeltable[k])]_vars


\* the largest value that 4 base-4 digits hold
MaxAddress == 4 ^ NUM_4 - 1

\* C30: when the artifacts of a file are written, every address of the
\* listing and every label address that goes into an Address word (a word
\* whose ARE is not Absolute), the entry file or the extern file is at most
\* 255, the largest value of 4 base-4 digits
C30_AddressesFit ==
    ObjectWritten =>
        /\ \A k \in 1..(ic + dc) : k - 1 + MEMORY_START <= MaxAddress
        /\ \A k \in 1..ic :
               (instable[k].type = "RECORD_TYPE_ADDRESS" /\ instable[k].u1 # 0) =>
                   instable[k].u0 <= MaxAddress
        /\ \A k \in 1..Len(labeltable) :
               labeltable[k].en = ENTRY => labeltable[k].index <= MaxAddress
        /\ \A k \in 1..Len(extable) : extable[k].index <= MaxAddress

=============================================================================
